---- MODULE Spec2Model ----
(***************************************************************************)
(* Flux: the shared store module (projects, epics, tasks, webhooks, the     *)
(* catalog, customers, quotes), its dependency / archive workflow, its     *)
(* webhook dispatch and its MCP tools, modelled from                       *)
(* src/packages/shared/src/types.ts, and the REST handler of               *)
(* src/api/index.ts.  Beside them: the file adapter's lock and files, the  *)
(* Firestore adapter, the start of the REST process, and the totals of the *)
(* quote form (src/FIREBASE_SETUP.md).                                     *)
(*                                                                         *)
(* Data abstraction: a record keeps the fields the modelled operations     *)
(* read or write and one free-text field (name) where an update needs a    *)
(* field to change; the other free-text fields (title, notes, description, *)
(* url, secret, agent, prices) are left out.  A timestamp is the value of  *)
(* the clock now.  Identifiers are naturals; 0 stands for the              *)
(* JavaScript value undefined in an id-valued field.  generateId() draws   *)
(* a random 7-character string; the model takes its results to be fresh    *)
(* (never returned before) and, ids being opaque, names them canonically:  *)
(* the k-th id generated for a collection is the k-th number of that       *)
(* collection's range, the ranges of the collections being disjoint.       *)
(* SpecIds drops that assumption and lets generateId() return any id.      *)
(***************************************************************************)
EXTENDS Integers, Sequences, FiniteSets

VARIABLES
    projects,   \* db.data.projects : sequence of Project
    epics,      \* db.data.epics    : sequence of Epic
    tasks,      \* db.data.tasks    : sequence of Task
    webhooks,   \* db.data.webhooks : sequence of Webhook
    deliveries, \* db.data.webhook_deliveries : sequence of WebhookDelivery
    handler,    \* webhookEventHandler : "null" or "set"
    trig,       \* the triggerWebhooks call in flight (an async function)
    nextId,     \* per collection, the next value generateId() returns
    last,       \* the last store operation: name, first argument, results
    lockFile,   \* LOCK_FILE: 0 when absent, else the process that created it
    procs,      \* per process, its position in withFileLock
    remote,     \* the Firestore collections: per collection, its documents
    writes,     \* the writeAsync calls of the Firestore adapter, in call order
    writePromise, \* FirestoreAdapter.writePromise: 0 (null) or an index of writes
    flush,      \* the flushFirestoreWrites call
    hydrated,   \* the data of a fresh adapter after its readAsync
    now,        \* Date.now(), in ms since the start of the behaviour
    products,   \* db.data.products  : sequence of Product
    customers,  \* db.data.customers : sequence of Customer
    quotes,     \* db.data.quotes    : sequence of Quote
    issued,     \* per collection, the ids its entities were ever given
    form,       \* the quote form: formLineItems, formTaxRate, the totals shown
    api,        \* the REST process: initialized, the adapters, the requests
    disk        \* DATA_FILE and TMP_FILE, each process's data and tool call

vars == <<projects, epics, tasks, webhooks, deliveries, handler, trig, nextId, last,
          lockFile, procs, remote, writes, writePromise, flush, hydrated, now,
          products, customers, quotes, issued, form, api, disk>>

\* the in-memory store of one process
storeVars == <<projects, epics, tasks, webhooks, deliveries, handler, trig, nextId, last>>

\* what lies outside the in-memory store: the data directory and the
\* processes that share it
lockVars == <<lockFile, procs>>
fireVars == <<remote, writes, writePromise, flush, hydrated>>
\* the catalog, the customer registry and the quotes of the same store
crmVars == <<products, customers, quotes>>
\* state beside the stores: the ids given out so far, the quote form, the
\* start of the REST process, the files of the file adapter
sideVars == <<issued, form, api, disk>>
env == <<lockVars, fireVars, now, crmVars, sideVars>>

----------------------------------------------------------------------------
(* Bounds of the model. *)

MaxProjects == 2    \* ids generated for projects
MaxEpics == 2       \* ids generated for epics
MaxTasks == 2       \* ids generated for tasks
MaxWebhooks == 2    \* ids generated for webhooks
MaxDeps == 2        \* length of a depends_on list
MaxDeliveries == 2  \* ids generated for webhook deliveries
MaxProducts == 2    \* ids generated for products
MaxCustomers == 2   \* ids generated for customers
MaxQuotes == 2      \* ids generated for quotes

ProjectIds == 1 .. MaxProjects
EpicIds == (MaxProjects + 1) .. (MaxProjects + MaxEpics)
TaskIds == (MaxProjects + MaxEpics + 1) .. (MaxProjects + MaxEpics + MaxTasks)
HookIds == (MaxProjects + MaxEpics + MaxTasks + 1) ..
                (MaxProjects + MaxEpics + MaxTasks + MaxWebhooks)

\* the ids generateId() has yet to return, per collection
DeliveryIds == (MaxProjects + MaxEpics + MaxTasks + MaxWebhooks + 1) ..
                (MaxProjects + MaxEpics + MaxTasks + MaxWebhooks + MaxDeliveries)

\* the first id after those of projects, epics, tasks, webhooks and deliveries
CrmBase == MaxProjects + MaxEpics + MaxTasks + MaxWebhooks + MaxDeliveries + 2

ProductIds == CrmBase .. (CrmBase + MaxProducts - 1)
CustomerIds == (CrmBase + MaxProducts) .. (CrmBase + MaxProducts + MaxCustomers - 1)
QuoteIds == (CrmBase + MaxProducts + MaxCustomers) ..
                (CrmBase + MaxProducts + MaxCustomers + MaxQuotes - 1)

FirstIds ==
    [project |-> 1, epic |-> MaxProjects + 1, task |-> MaxProjects + MaxEpics + 1,
     webhook |-> MaxProjects + MaxEpics + MaxTasks + 1,
     delivery |-> MaxProjects + MaxEpics + MaxTasks + MaxWebhooks + 1,
     product |-> CrmBase, customer |-> CrmBase + MaxProducts,
     quote |-> CrmBase + MaxProducts + MaxCustomers]
Undefined == 0

STATUSES == {"planning", "todo", "in_progress", "done"}

----------------------------------------------------------------------------
(* Array helpers (Array.prototype.findIndex / indexOf / splice / filter).  *)

\* first index i with s[i].id = id, 0 when there is none (findIndex = -1)
FindIndexById(s, id) ==
    IF \E i \in 1 .. Len(s) : s[i].id = id
    THEN CHOOSE i \in 1 .. Len(s) :
            /\ s[i].id = id
            /\ \A j \in 1 .. (i - 1) : s[j].id # id
    ELSE 0

\* first index i with s[i] = x, 0 when there is none (indexOf = -1)
IndexOf(s, x) ==
    IF \E i \in 1 .. Len(s) : s[i] = x
    THEN CHOOSE i \in 1 .. Len(s) :
            /\ s[i] = x
            /\ \A j \in 1 .. (i - 1) : s[j] # x
    ELSE 0

\* s.splice(i, 1)
Splice(s, i) == SubSeq(s, 1, i - 1) \o SubSeq(s, i + 1, Len(s))

\* variant: nothing is found in the list
IncludesNothing(s, x) == FALSE

Includes(s, x) == \E i \in 1 .. Len(s) : s[i] = x

\* s.map(x => x.id)
IdsOf(s) == [i \in 1 .. Len(s) |-> s[i].id]

\* { ...obj, ...updates } : the fields of updates replace those of obj
Merge(obj, updates) ==
    [f \in DOMAIN obj |-> IF f \in DOMAIN updates THEN updates[f] ELSE obj[f]]

\* The record of the last operation: its name and first argument; ok: the
\* boolean it returned, or whether it found its target; n: the count it
\* returned (for deleteEpic, a history value: the number of tasks whose
\* epic_id it cleared); wrote: whether it called db.write(); n2 and flags:
\* the second count and the two boolean arguments of cleanupProject; out: the
\* array a query returned; req: the arguments or body of a tool call or
\* request, as a one-element list; log: what a request handler did, in order:
\* "write" for the mutator's db.write(), then the events it triggered.
Op(name, arg, ok, n, wrote) ==
    [op |-> name, arg |-> arg, ok |-> ok, n |-> n, wrote |-> wrote,
     n2 |-> 0, flags |-> <<FALSE, FALSE>>, out |-> <<>>, req |-> <<>>,
     log |-> <<>>]

----------------------------------------------------------------------------
(* Task operations. *)

NewTask(id, projectId, epicId) ==
    [id |-> id, status |-> "planning", depends_on |-> <<>>,
     epic_id |-> epicId, project_id |-> projectId, archived |-> "undefined"]

createTask(projectId, epicId) ==
    /\ tasks' = Append(tasks, NewTask(nextId.task, projectId, epicId))
    /\ nextId' = [nextId EXCEPT !.task = @ + 1]
    /\ last' = Op("createTask", nextId.task, TRUE, 0, TRUE)
    /\ UNCHANGED <<projects, epics, webhooks, deliveries, handler, trig, env>>

UpdatedTasks(ts, id, updates) ==
    LET index == FindIndexById(ts, id)
    IN  IF index = 0 THEN ts
        ELSE [ts EXCEPT ![index] = Merge(ts[index], updates)]

updateTask(id, updates) ==
    LET index == FindIndexById(tasks, id)
    IN  /\ tasks' = UpdatedTasks(tasks, id, updates)
        /\ last' = Op("updateTask", id, index # 0, 0, index # 0)
        /\ UNCHANGED <<projects, epics, webhooks, deliveries, handler, trig, env, nextId>>

\* the forEach of deleteTask: the first occurrence of id leaves depends_on
PruneDependency(task, id) ==
    LET depIndex == IndexOf(task.depends_on, id)
    IN  IF depIndex # 0
        THEN [task EXCEPT !.depends_on = Splice(task.depends_on, depIndex)]
        ELSE task

TasksAfterDelete(ts, id) ==
    LET index == FindIndexById(ts, id)
    IN  IF index = 0 THEN ts
        ELSE LET rest == Splice(ts, index)
             IN  [i \in 1 .. Len(rest) |-> PruneDependency(rest[i], id)]

deleteTask(id) ==
    LET index == FindIndexById(tasks, id)
    IN  /\ tasks' = TasksAfterDelete(tasks, id)
        /\ last' = Op("deleteTask", id, index # 0, 0, index # 0)
        /\ UNCHANGED <<projects, epics, webhooks, deliveries, handler, trig, env, nextId>>

----------------------------------------------------------------------------
(* Dependency operations. *)

\* (req of the record: a history value, the id addDependency was given)
addDependency(taskId, dependsOnId) ==
    LET index == FindIndexById(tasks, taskId)
        done(ok, wrote) ==
            [Op("addDependency", taskId, ok, 0, wrote) EXCEPT !.req = <<dependsOnId>>]
    IN  /\ index # 0 => Len(tasks[index].depends_on) < MaxDeps
        /\ IF index = 0
           THEN /\ tasks' = tasks
                /\ last' = done(FALSE, FALSE)
           ELSE IF Includes(tasks[index].depends_on, dependsOnId)
           THEN /\ tasks' = tasks
                /\ last' = done(TRUE, FALSE)
           ELSE /\ tasks' = [tasks EXCEPT ![index].depends_on =
                                Append(@, dependsOnId)]
                /\ last' = done(TRUE, TRUE)
        /\ UNCHANGED <<projects, epics, webhooks, deliveries, handler, trig, env, nextId>>

removeDependency(taskId, dependsOnId) ==
    LET index == FindIndexById(tasks, taskId)
        depIndex == IF index = 0 THEN 0
                    ELSE IndexOf(tasks[index].depends_on, dependsOnId)
    IN  /\ IF depIndex = 0
           THEN /\ tasks' = tasks
                /\ last' = Op("removeDependency", taskId, FALSE, 0, FALSE)
           ELSE /\ tasks' = [tasks EXCEPT ![index].depends_on =
                                Splice(@, depIndex)]
                /\ last' = Op("removeDependency", taskId, TRUE, 0, TRUE)
        /\ UNCHANGED <<projects, epics, webhooks, deliveries, handler, trig, env, nextId>>

\* variant: an id that resolves to no task counts as blocking
DepBlocksDangling(ts, depId) ==
    LET d == FindIndexById(ts, depId)
    IN  d = 0 \/ ts[d].status # "done"

\* dep && dep.status !== 'done' for one id of depends_on
DepBlocks(ts, depId) ==
    LET d == FindIndexById(ts, depId)
    IN  d # 0 /\ ts[d].status # "done"

TaskBlocked(ts, taskId) ==
    LET index == FindIndexById(ts, taskId)
    IN  IF index = 0 \/ Len(ts[index].depends_on) = 0 THEN FALSE
        ELSE \E k \in 1 .. Len(ts[index].depends_on) :
                DepBlocks(ts, ts[index].depends_on[k])

isTaskBlocked(taskId) ==
    /\ last' = Op("isTaskBlocked", taskId, TaskBlocked(tasks, taskId), 0, FALSE)
    /\ UNCHANGED <<projects, epics, tasks, webhooks, deliveries, handler, trig, env, nextId>>

----------------------------------------------------------------------------
(* Inputs of the task specification. *)

\* ids generateId() has returned for a collection (stored references are
\* drawn from these: an id cannot be named before it was generated)
Generated(kind) == FirstIds[kind] .. (nextId[kind] - 1)

DepLists == UNION {[1 .. n -> Generated("task")] : n \in 0 .. MaxDeps}

TaskDepUpdates == {[depends_on |-> d] : d \in DepLists}
TaskStatusUpdates == {[status |-> s] : s \in STATUSES}

----------------------------------------------------------------------------
(* The MCP tools on tasks (CallTool handler).  args is the tool's argument   *)
(* object: a record holding task_id and the optional arguments supplied.     *)

Has(args, f) == f \in DOMAIN args

\* variant: no workflow validation
NeverRefused(args) == FALSE

\* "tasks in 'planning' cannot go directly to 'in_progress'"; currentTask is
\* getTask(args.task_id), the first task with that id
PlanningRefused(args) ==
    LET index == FindIndexById(tasks, args.task_id)
    IN  /\ Has(args, "status") /\ args.status = "in_progress"
        /\ index # 0 /\ tasks[index].status = "planning"

\* the updates object update_task builds; '' is the falsy epic_id, which
\* args.epic_id || undefined turns into undefined, and [] is truthy
ToolUpdates(args) ==
    [f \in {g \in {"status", "epic_id", "depends_on"} : Has(args, g)} |-> args[f]]

ToolFrame == UNCHANGED <<projects, epics, webhooks, deliveries, handler, trig, env, nextId>>

\* a tool call answering isError, or passing updates to updateTask
CallUpdate(name, args, updates) ==
    LET index == FindIndexById(tasks, args.task_id)
    IN  /\ IF PlanningRefused(args)
           THEN /\ tasks' = tasks
                /\ last' = [Op(name, args.task_id, FALSE, 0, FALSE)
                            EXCEPT !.req = <<args>>]
           ELSE /\ tasks' = UpdatedTasks(tasks, args.task_id, updates)
                /\ last' = [Op(name, args.task_id, index # 0, 0, index # 0)
                            EXCEPT !.req = <<args>>]
        /\ ToolFrame

update_task(args) == CallUpdate("update_task", args, ToolUpdates(args))

move_task_status(args) ==
    CallUpdate("move_task_status", args, [status |-> args.status])

UpdateTaskArgs ==
    LET Ids == TaskIds
    IN  {[task_id |-> t] : t \in Ids}
        \cup {[task_id |-> t, status |-> st] : t \in Ids, st \in STATUSES}
        \cup {[task_id |-> t, status |-> "in_progress", epic_id |-> e] :
                t \in Ids, e \in {Undefined} \cup Generated("epic")}
        \cup {[task_id |-> t, status |-> "in_progress", depends_on |-> <<d>>] :
                t \in Ids, d \in Generated("task")}

MoveTaskArgs == {[task_id |-> t, status |-> st] : t \in TaskIds, st \in STATUSES}

----------------------------------------------------------------------------
(* Project and epic operations. *)

createProject ==
    /\ projects' = Append(projects, [id |-> nextId.project, name |-> "n1"])
    /\ nextId' = [nextId EXCEPT !.project = @ + 1]
    /\ last' = Op("createProject", nextId.project, TRUE, 0, TRUE)
    /\ UNCHANGED <<epics, tasks, webhooks, deliveries, handler, trig, env>>

\* variant: when no id matches, the entity at the end is updated
UpdatedOrLast(es, id, updates) ==
    LET index == FindIndexById(es, id)
    IN  IF Len(es) = 0 THEN es
        ELSE IF index = 0 THEN [es EXCEPT ![Len(es)] = Merge(es[Len(es)], updates)]
        ELSE [es EXCEPT ![index] = Merge(es[index], updates)]

\* es[index] = { ...es[index], ...updates } at the index findIndex finds
Updated(es, id, updates) ==
    LET index == FindIndexById(es, id)
    IN  IF index = 0 THEN es ELSE [es EXCEPT ![index] = Merge(es[index], updates)]

updateProject(id, updates) ==
    /\ projects' = Updated(projects, id, updates)
    /\ last' = Op("updateProject", id, FindIndexById(projects, id) # 0, 0,
                  FindIndexById(projects, id) # 0)
    /\ UNCHANGED <<epics, tasks, webhooks, deliveries, handler, trig, env, nextId>>

updateEpic(id, updates) ==
    /\ epics' = Updated(epics, id, updates)
    /\ last' = Op("updateEpic", id, FindIndexById(epics, id) # 0, 0,
                  FindIndexById(epics, id) # 0)
    /\ UNCHANGED <<projects, tasks, webhooks, deliveries, handler, trig, env, nextId>>

\* variant: the tasks of the project are kept
KeepAll(s, id) == s

\* filter(x => x.project_id !== id)
NotOfProject(s, id) == SelectSeq(s, LAMBDA x : x.project_id # id)

deleteProject(id) ==
    LET index == FindIndexById(projects, id)
    IN  /\ IF index = 0
           THEN UNCHANGED <<projects, epics, tasks>>
           ELSE /\ projects' = Splice(projects, index)
                /\ epics' = NotOfProject(epics, id)
                /\ tasks' = NotOfProject(tasks, id)
        /\ last' = Op("deleteProject", id, index # 0, 0, index # 0)
        /\ UNCHANGED <<webhooks, deliveries, handler, trig, env, nextId>>

createEpic(projectId) ==
    /\ epics' = Append(epics,
            [id |-> nextId.epic, status |-> "planning", depends_on |-> <<>>,
             project_id |-> projectId])
    /\ nextId' = [nextId EXCEPT !.epic = @ + 1]
    /\ last' = Op("createEpic", nextId.epic, TRUE, 0, TRUE)
    /\ UNCHANGED <<projects, tasks, webhooks, deliveries, handler, trig, env>>

\* variant: the tasks of the epic are deleted with it
DropTasksOfEpic(ts, id) == SelectSeq(ts, LAMBDA t : t.epic_id # id)

\* the forEach of deleteEpic: epic_id = undefined on the tasks of the epic
ClearEpic(ts, id) ==
    [i \in 1 .. Len(ts) |->
        IF ts[i].epic_id = id THEN [ts[i] EXCEPT !.epic_id = Undefined] ELSE ts[i]]

deleteEpic(id) ==
    LET index == FindIndexById(epics, id)
    IN  /\ IF index = 0
           THEN /\ UNCHANGED <<epics, tasks>>
                /\ last' = Op("deleteEpic", id, FALSE, 0, FALSE)
           ELSE /\ epics' = Splice(epics, index)
                /\ tasks' = ClearEpic(tasks, id)
                /\ last' = Op("deleteEpic", id, TRUE,
                        Cardinality({i \in 1 .. Len(tasks) : tasks[i].epic_id = id}),
                        TRUE)
        /\ UNCHANGED <<projects, webhooks, deliveries, handler, trig, env, nextId>>

----------------------------------------------------------------------------
(* Archive operations. *)

\* !task.archived
NotArchived(task) == task.archived # "true"

\* variant: the project of the task is not compared
ShouldArchiveAnyProject(task, projectId) ==
    task.status = "done" /\ NotArchived(task)

\* variant: tasks already archived are archived (and counted) again
ShouldArchiveAgain(task, projectId) ==
    task.project_id = projectId /\ task.status = "done"

\* the condition of archiveDoneTasks
ShouldArchive(task, projectId) ==
    task.project_id = projectId /\ task.status = "done" /\ NotArchived(task)

ArchivedTasks(ts, projectId) ==
    [i \in 1 .. Len(ts) |->
        IF ShouldArchive(ts[i], projectId)
        THEN [ts[i] EXCEPT !.archived = "true"] ELSE ts[i]]

ArchiveCount(ts, projectId) ==
    Cardinality({i \in 1 .. Len(ts) : ShouldArchive(ts[i], projectId)})

\* if (count > 0) db.write()
ArchiveWrites(ts, projectId) == ArchiveCount(ts, projectId) > 0

archiveDoneTasks(projectId) ==
    LET count == ArchiveCount(tasks, projectId)
    IN  /\ tasks' = ArchivedTasks(tasks, projectId)
        /\ last' = Op("archiveDoneTasks", projectId, TRUE, count,
                ArchiveWrites(tasks, projectId))
        /\ UNCHANGED <<projects, epics, webhooks, deliveries, handler, trig, env, nextId>>

\* variant: an archived task still counts as active
HasAnyTasks(ts, epicId) ==
    \E i \in 1 .. Len(ts) : ts[i].epic_id = epicId

\* tasks.some(task => task.epic_id === epic.id && !task.archived)
HasActiveTasks(ts, epicId) ==
    \E i \in 1 .. Len(ts) : ts[i].epic_id = epicId /\ NotArchived(ts[i])

\* epicIdsToDelete, in collection order
EpicIdsToDelete(es, ts, projectId) ==
    IdsOf(SelectSeq(es, LAMBDA e :
        e.project_id = projectId /\ ~HasActiveTasks(ts, e.id)))

\* variant: the sweep clears epic_id on the tasks of the epics it deletes, as
\* deleteEpic does
TasksCleared(ts, epicIdsToDelete) ==
    [i \in 1 .. Len(ts) |->
        IF Includes(epicIdsToDelete, ts[i].epic_id)
        THEN [ts[i] EXCEPT !.epic_id = Undefined] ELSE ts[i]]

\* the sweep reads db.data.tasks and assigns db.data.epics only
TasksAfterEpicSweep(ts, epicIdsToDelete) == ts

archiveEmptyEpics(projectId) ==
    LET epicIdsToDelete == EpicIdsToDelete(epics, tasks, projectId)
        count == Len(epicIdsToDelete)
    IN  /\ epics' = IF count > 0
                    THEN SelectSeq(epics, LAMBDA e : ~Includes(epicIdsToDelete, e.id))
                    ELSE epics
        /\ tasks' = TasksAfterEpicSweep(tasks, epicIdsToDelete)
        /\ last' = Op("archiveEmptyEpics", projectId, TRUE, count, count > 0)
        /\ UNCHANGED <<projects, webhooks, deliveries, handler, trig, env, nextId>>

\* db.data.epics after the epic sweep
EpicsAfterSweep(es, ts, projectId) ==
    SelectSeq(es, LAMBDA e : ~Includes(EpicIdsToDelete(es, ts, projectId), e.id))

\* variant: the flag of a sweep is not looked at
FlagIgnored(flag) == TRUE

\* if (archiveTasks) ... / if (archiveEpics) ...
SweepRuns(flag) == flag

\* the task sweep, then the epic sweep on the tasks the task sweep left
cleanupProject(projectId, archiveTasks, archiveEpics) ==
    LET archivedTasks == IF SweepRuns(archiveTasks)
                         THEN ArchiveCount(tasks, projectId) ELSE 0
        tasksAfter == IF SweepRuns(archiveTasks)
                      THEN ArchivedTasks(tasks, projectId) ELSE tasks
        deletedEpics == IF SweepRuns(archiveEpics)
                        THEN Len(EpicIdsToDelete(epics, tasksAfter, projectId)) ELSE 0
    IN  /\ tasks' = tasksAfter
        /\ epics' = IF SweepRuns(archiveEpics)
                    THEN EpicsAfterSweep(epics, tasksAfter, projectId) ELSE epics
        /\ last' = [Op("cleanupProject", projectId, TRUE, archivedTasks,
                        archivedTasks > 0 \/ deletedEpics > 0)
                    EXCEPT !.n2 = deletedEpics,
                           !.flags = <<archiveTasks, archiveEpics>>]
        /\ UNCHANGED <<projects, webhooks, deliveries, handler, trig, env, nextId>>

----------------------------------------------------------------------------
(* Webhook operations.  A Webhook's events array is only ever read with     *)
(* includes(), so it is modelled as a set.                                  *)

\* the event types the model dispatches (two of WEBHOOK_EVENT_TYPES: one the
\* REST handler triggers with a project id, one it triggers without)
EventTypes == {"task.created", "project.created"}

\* an optional boolean argument: "undefined", "true" or "false"
OptBool == {"undefined", "true", "false"}

\* options?.enabled ?? true
EnabledOrDefault(opt) == IF opt = "undefined" THEN TRUE ELSE opt = "true"

createWebhook(events, enabledOpt, projectId) ==
    /\ webhooks' = Append(webhooks,
            [id |-> nextId.webhook, events |-> events,
             enabled |-> EnabledOrDefault(enabledOpt), project_id |-> projectId])
    /\ nextId' = [nextId EXCEPT !.webhook = @ + 1]
    /\ last' = Op("createWebhook", nextId.webhook, TRUE, 0, TRUE)
    /\ UNCHANGED <<projects, epics, tasks, deliveries, handler, trig, env>>

updateWebhook(id, updates) ==
    LET index == FindIndexById(webhooks, id)
    IN  /\ webhooks' = IF index = 0 THEN webhooks
                       ELSE [webhooks EXCEPT ![index] = Merge(webhooks[index], updates)]
        /\ last' = Op("updateWebhook", id, index # 0, 0, index # 0)
        /\ UNCHANGED <<projects, epics, tasks, deliveries, handler, trig, env, nextId>>

\* variant: the delivery records of the deleted webhook are kept
OfAnyWebhook(id, d) == TRUE

\* variant: the delivery records of every webhook are dropped
OfNoWebhook(id, d) == FALSE

NotOfWebhook(id, d) == d.webhook_id # id

\* (n of the record: a history value, the number of delivery records removed)
deleteWebhook(id) ==
    LET index == FindIndexById(webhooks, id)
    IN  /\ IF index = 0
           THEN UNCHANGED <<webhooks, deliveries>>
           ELSE /\ webhooks' = Splice(webhooks, index)
                /\ deliveries' = SelectSeq(deliveries, LAMBDA d : NotOfWebhook(id, d))
        /\ last' = Op("deleteWebhook", id, index # 0,
                IF index = 0 THEN 0
                ELSE Len(deliveries)
                        - Len(SelectSeq(deliveries, LAMBDA d : NotOfWebhook(id, d))),
                index # 0)
        /\ UNCHANGED <<projects, epics, tasks, handler, trig, env, nextId>>

----------------------------------------------------------------------------
(* Webhook delivery records.  created_at is an ISO-8601 string made by     *)
(* toISOString(); such strings compare as the instants they denote, so the *)
(* model keeps the instant, in ms.                                         *)

\* the ids of the deliveries of the delivery log model
LogIds == FirstIds.delivery .. (FirstIds.delivery + MaxDeliveries)

\* 7 * 24 * 60 * 60 * 1000
SevenDays == 7 * 24 * 60 * 60 * 1000

\* the instants the clock takes
Times == {0, 1, SevenDays, SevenDays + 1}

\* time passes
tick(t) ==
    /\ t > now
    /\ now' = t
    /\ UNCHANGED <<storeVars, crmVars, sideVars, lockVars, fireVars>>

DeliveryFrame == UNCHANGED <<projects, epics, tasks, webhooks, handler, trig,
                             lockVars, fireVars, now, crmVars, sideVars>>

createWebhookDelivery(webhookId) ==
    /\ deliveries' = Append(deliveries,
            [id |-> nextId.delivery, webhook_id |-> webhookId,
             status |-> "pending", attempts |-> 0, created_at |-> now])
    /\ nextId' = [nextId EXCEPT !.delivery = @ + 1]
    /\ last' = Op("createWebhookDelivery", nextId.delivery, TRUE, 0, TRUE)
    /\ DeliveryFrame

updateWebhookDelivery(id, updates) ==
    LET index == FindIndexById(deliveries, id)
    IN  /\ deliveries' = IF index = 0 THEN deliveries
                         ELSE [deliveries EXCEPT ![index] = Merge(deliveries[index], updates)]
        /\ last' = Op("updateWebhookDelivery", id, index # 0, 0, index # 0)
        /\ UNCHANGED nextId /\ DeliveryFrame

\* maxAge: number = 7 * 24 * 60 * 60 * 1000; args is the argument list
MaxAgeOf(args) == IF args = <<>> THEN SevenDays ELSE args[1]

\* d.created_at > cutoff
Recent(d, cutoff) == d.created_at > cutoff

cleanupOldDeliveries(args) ==
    LET cutoff == now - MaxAgeOf(args)
        kept == SelectSeq(deliveries, LAMBDA d : Recent(d, cutoff))
        removed == Len(deliveries) - Len(kept)
    IN  /\ deliveries' = kept
        /\ last' = Op("cleanupOldDeliveries", MaxAgeOf(args), TRUE, removed, removed > 0)
        /\ UNCHANGED nextId /\ DeliveryFrame

\* limit: number = 50; args is the argument list after webhookId
DefaultLimit == 50

LimitOf(args) == IF args = <<>> THEN DefaultLimit ELSE args[1]

\* variant: oldest first
ComesBeforeAscending(a, b) == a.created_at <= b.created_at

\* the comparator (a, b) => time(b) - time(a) leaves a before b
ComesBefore(a, b) == a.created_at >= b.created_at

\* Array.prototype.sort is stable: x goes behind everything it does not
\* have to precede
InsertSorted(sorted, x) ==
    LET k == Cardinality({i \in 1 .. Len(sorted) : ComesBefore(sorted[i], x)})
    IN  SubSeq(sorted, 1, k) \o <<x>> \o SubSeq(sorted, k + 1, Len(sorted))

RECURSIVE SortByCreatedAt(_)
SortByCreatedAt(s) ==
    IF s = <<>> THEN <<>>
    ELSE InsertSorted(SortByCreatedAt(SubSeq(s, 1, Len(s) - 1)), s[Len(s)])

\* slice(0, limit): a negative end counts from the end of the array
SliceTo(s, limit) ==
    LET end == IF limit < 0
               THEN (IF Len(s) + limit < 0 THEN 0 ELSE Len(s) + limit)
               ELSE (IF limit < Len(s) THEN limit ELSE Len(s))
    IN  SubSeq(s, 1, end)

\* the array getWebhookDeliveries returns
DeliveriesOf(ds, webhookId, limit) ==
    LET copy == IF webhookId # Undefined
                THEN SelectSeq(ds, LAMBDA d : d.webhook_id = webhookId)
                ELSE ds
    IN  SliceTo(SortByCreatedAt(copy), limit)

getWebhookDeliveries(webhookId, args) ==
    /\ last' = [Op("getWebhookDeliveries", webhookId, TRUE, LimitOf(args), FALSE)
                EXCEPT !.out = DeliveriesOf(deliveries, webhookId, LimitOf(args))]
    /\ UNCHANGED <<deliveries, nextId>> /\ DeliveryFrame

----------------------------------------------------------------------------
(* Product and customer operations.  A product is its id, sku, name,         *)
(* isActive, createdAt and updatedAt; a customer its id, name, isActive,     *)
(* createdAt and updatedAt.  input is the input object: a record holding     *)
(* the fields supplied.                                                      *)

Skus == {"a", "A", "b"}
Names == {"n1", "n2"}

\* String.prototype.toLowerCase on the SKUs of the model
ToLowerCase(sku) == IF sku = "A" THEN "a" ELSE sku

CrmFrame == UNCHANGED <<projects, epics, tasks, webhooks, deliveries, handler, trig,
                        lockVars, fireVars, now, sideVars>>

\* input.isActive !== undefined ? input.isActive : true
ActiveOrDefault(input) == IF Has(input, "isActive") THEN input.isActive ELSE TRUE

\* products.find(p => p.sku.toLowerCase() === sku.toLowerCase()): the index
\* of the first such product, 0 when there is none
getProductBySku(ps, sku) ==
    IF \E i \in 1 .. Len(ps) : ToLowerCase(ps[i].sku) = ToLowerCase(sku)
    THEN CHOOSE i \in 1 .. Len(ps) :
            /\ ToLowerCase(ps[i].sku) = ToLowerCase(sku)
            /\ \A j \in 1 .. (i - 1) : ToLowerCase(ps[j].sku) # ToLowerCase(sku)
    ELSE 0

NewProduct(id, input) ==
    [id |-> id, sku |-> input.sku, name |-> input.name,
     isActive |-> ActiveOrDefault(input), createdAt |-> now, updatedAt |-> now]

createProduct(input) ==
    /\ products' = Append(products, NewProduct(nextId.product, input))
    /\ nextId' = [nextId EXCEPT !.product = @ + 1]
    /\ last' = Op("createProduct", nextId.product, TRUE, 0, TRUE)
    /\ UNCHANGED <<customers, quotes>> /\ CrmFrame

\* { ...entity, ...input, updatedAt: new Date().toISOString() }
Touched(entity, input) == [Merge(entity, input) EXCEPT !.updatedAt = now]

UpdatedEntities(es, id, input) ==
    LET index == FindIndexById(es, id)
    IN  IF index = 0 THEN es ELSE [es EXCEPT ![index] = Touched(es[index], input)]

updateProduct(id, input) ==
    LET index == FindIndexById(products, id)
    IN  /\ products' = UpdatedEntities(products, id, input)
        /\ last' = Op("updateProduct", id, index # 0, 0, index # 0)
        /\ UNCHANGED <<customers, quotes, nextId>> /\ CrmFrame

\* variant: the soft delete takes the entity out of its collection
HardDeleted(es, id) ==
    LET index == FindIndexById(es, id)
    IN  IF index = 0 THEN es ELSE Splice(es, index)

\* "Soft delete - set isActive to false"
SoftDeleted(es, id) ==
    LET index == FindIndexById(es, id)
    IN  IF index = 0 THEN es
        ELSE [es EXCEPT ![index].isActive = FALSE, ![index].updatedAt = now]

deleteProduct(id) ==
    LET index == FindIndexById(products, id)
    IN  /\ products' = SoftDeleted(products, id)
        /\ last' = Op("deleteProduct", id, index # 0, 0, index # 0)
        /\ UNCHANGED <<customers, quotes, nextId>> /\ CrmFrame

hardDeleteProduct(id) ==
    LET index == FindIndexById(products, id)
    IN  /\ products' = IF index = 0 THEN products ELSE Splice(products, index)
        /\ last' = Op("hardDeleteProduct", id, index # 0, 0, index # 0)
        /\ UNCHANGED <<customers, quotes, nextId>> /\ CrmFrame

\* listProducts({isActive}) / listCustomers({isActive})
ListByActive(es, isActive) == SelectSeq(es, LAMBDA e : e.isActive = isActive)

NewCustomer(id, input) ==
    [id |-> id, name |-> input.name, isActive |-> ActiveOrDefault(input),
     createdAt |-> now, updatedAt |-> now]

createCustomer(input) ==
    /\ customers' = Append(customers, NewCustomer(nextId.customer, input))
    /\ nextId' = [nextId EXCEPT !.customer = @ + 1]
    /\ last' = Op("createCustomer", nextId.customer, TRUE, 0, TRUE)
    /\ UNCHANGED <<products, quotes>> /\ CrmFrame

updateCustomer(id, input) ==
    LET index == FindIndexById(customers, id)
    IN  /\ customers' = UpdatedEntities(customers, id, input)
        /\ last' = Op("updateCustomer", id, index # 0, 0, index # 0)
        /\ UNCHANGED <<products, quotes, nextId>> /\ CrmFrame

deleteCustomer(id) ==
    LET index == FindIndexById(customers, id)
    IN  /\ customers' = SoftDeleted(customers, id)
        /\ last' = Op("deleteCustomer", id, index # 0, 0, index # 0)
        /\ UNCHANGED <<products, quotes, nextId>> /\ CrmFrame

hardDeleteCustomer(id) ==
    LET index == FindIndexById(customers, id)
    IN  /\ customers' = IF index = 0 THEN customers ELSE Splice(customers, index)
        /\ last' = Op("hardDeleteCustomer", id, index # 0, 0, index # 0)
        /\ UNCHANGED <<products, quotes, nextId>> /\ CrmFrame

----------------------------------------------------------------------------
(* Quote operations.  A quote is its id, customerId, lineItems (the ids of   *)
(* the products quoted), status, createdAt and updatedAt.                    *)

QUOTE_STATUSES == {"draft", "sent", "accepted", "rejected", "expired"}

\* the customer and every product of the input can be resolved, and there
\* is a line item; a missing lineItems leaves the existing ones in place
Resolvable(input) ==
    /\ Has(input, "customerId") => FindIndexById(customers, input.customerId) # 0
    /\ Has(input, "lineItems") =>
            /\ Len(input.lineItems) > 0
            /\ \A i \in 1 .. Len(input.lineItems) :
                    FindIndexById(products, input.lineItems[i]) # 0

NewQuote(id, input) ==
    [id |-> id, customerId |-> input.customerId, lineItems |-> input.lineItems,
     status |-> IF Has(input, "status") THEN input.status ELSE "draft",
     createdAt |-> now, updatedAt |-> now]

\* updateQuoteStatus(id, status): the status set and updatedAt refreshed
WithStatus(qs, id, status) == UpdatedEntities(qs, id, [status |-> status])

----------------------------------------------------------------------------
(* Webhook triggering.  triggerWebhooks is an async function: it runs      *)
(* without interruption up to an await on a promise the handler returned,  *)
(* and any other operation may run before that promise settles.  The       *)
(* handler is an external callback: each invocation either throws at once, *)
(* or returns a promise that later resolves or rejects.                    *)

setWebhookEventHandler(h) ==
    /\ handler' = h
    /\ last' = Op("setWebhookEventHandler", 0, h = "set", 0, FALSE)
    /\ UNCHANGED <<projects, epics, tasks, webhooks, deliveries, trig, env, nextId>>

\* variant: the project of the event is not compared
MatchesAnyProject(w, event, projectId) ==
    IF ~w.enabled THEN FALSE
    ELSE IF event \notin w.events THEN FALSE
    ELSE TRUE

\* the filter of triggerWebhooks; projectId = Undefined when the argument is omitted
Matches(w, event, projectId) ==
    IF ~w.enabled THEN FALSE
    ELSE IF event \notin w.events THEN FALSE
    ELSE IF w.project_id # Undefined /\ projectId # Undefined /\ w.project_id # projectId
         THEN FALSE
    ELSE TRUE

MatchingWebhooks(ws, event, projectId) ==
    SelectSeq(ws, LAMBDA w : Matches(w, event, projectId))

\* a call of triggerWebhooks:
\*   pc        "idle" (none yet), "awaiting" (at the await), "done" (returned)
\*   matching  ids of matchingWebhooks, in order;  next: index of the next one
\*   invoked   ids of the webhooks the handler was called for, in call order
\*   failed    a handler invocation threw or rejected
\*   noHandler the function found no handler: at entry, or (a TypeError, caught)
\*             when calling it for a webhook
\*   rejected  the promise triggerWebhooks returned has rejected
IdleTrig ==
    [pc |-> "idle", event |-> "none", projectId |-> Undefined, matching |-> <<>>,
     next |-> 1, invoked |-> <<>>, failed |-> FALSE, noHandler |-> FALSE,
     rejected |-> FALSE]

\* variant: no try/catch, the failure leaves the function
Uncaught(call) == [call EXCEPT !.failed = TRUE, !.rejected = TRUE]

\* the catch block: console.error, and the loop goes on
Caught(call) == [call EXCEPT !.failed = TRUE]

\* The for loop from call.next on, up to the next await or the return, with
\* handler reference h; the next `throws` invocations throw synchronously.
RECURSIVE RunLoop(_, _, _)
RunLoop(call, h, throws) ==
    IF call.rejected THEN [call EXCEPT !.pc = "done"]
    ELSE IF call.next > Len(call.matching) THEN [call EXCEPT !.pc = "done"]
    ELSE IF h = "null"
         THEN RunLoop(Caught([call EXCEPT !.next = @ + 1, !.noHandler = TRUE]),
                      h, throws)
    ELSE LET called == [call EXCEPT !.invoked = Append(@, call.matching[call.next]),
                                    !.next = @ + 1]
         IN  IF throws > 0
             THEN RunLoop(Caught(called), h, throws - 1)
             ELSE [called EXCEPT !.pc = "awaiting"]

\* variant: no early return, the loop runs without a handler
NoEarlyReturn(h) == FALSE

\* if (!webhookEventHandler) return;
NoHandler(h) == h = "null"

triggerWebhooks(event, projectId, throws) ==
    /\ trig.pc # "awaiting"
    /\ IF NoHandler(handler)
       THEN trig' = [IdleTrig EXCEPT !.pc = "done", !.event = event,
                                     !.projectId = projectId, !.noHandler = TRUE]
       ELSE LET matching == IdsOf(MatchingWebhooks(webhooks, event, projectId))
            IN  /\ throws <= Len(matching)
                /\ trig' = RunLoop([IdleTrig EXCEPT !.event = event,
                                        !.projectId = projectId,
                                        !.matching = matching],
                                   handler, throws)
    /\ handler = "null" => throws = 0
    /\ last' = Op("triggerWebhooks", projectId, handler = "set", 0, FALSE)
    /\ UNCHANGED <<projects, epics, tasks, webhooks, deliveries, handler, nextId, env>>

\* the awaited promise settles and the function resumes
handlerSettles(outcome, throws) ==
    /\ trig.pc = "awaiting"
    /\ throws <= Len(trig.matching) + 1 - trig.next
    /\ handler = "null" => throws = 0
    /\ trig' = RunLoop(IF outcome = "reject" THEN Caught(trig) ELSE trig,
                       handler, throws)
    /\ last' = Op("handlerSettles", 0, outcome = "resolve", 0, FALSE)
    /\ UNCHANGED <<projects, epics, tasks, webhooks, deliveries, handler, nextId, env>>

\* Inputs of the webhook specification.
ProjectArgs == {Undefined} \cup ProjectIds
HookProjects == ProjectArgs \ {MaxProjects}
WebhookUpdates ==
    {[enabled |-> b] : b \in BOOLEAN} \cup {[project_id |-> p] : p \in HookProjects}

----------------------------------------------------------------------------------------------------------------------------------------
(* The file adapter's lock: withFileLock, run by the processes that share   *)
(* one data file.  Time is counted per call, in milliseconds since start.  *)

MaxProcs == 2       \* processes sharing the data file

Procs == 1 .. MaxProcs

\* LOCK_FILE does not exist
NoFile == 0

\* Date.now() - start > 2000
LockTimeout == 2000

\* sleep(25)
SleepMs == 25

\* The elapsed times above LockTimeout all take the same branch; Late, the
\* first one a sleeping process can observe, stands for them.
Late == LockTimeout + SleepMs

\* a process outside withFileLock; how its last call ended:
\* "none", "returned", "threw" (the body's error) or "timeout"
Outside(how) == [pc |-> "outside", waited |-> 0, out |-> how]

\* variant: the lock file is opened without the exclusive flag
OpenAlways(file) == TRUE

\* openSync(LOCK_FILE, 'wx') succeeds only when the file does not exist
OpenExclusive(file) == file = NoFile

\* variant: the wait is never given up
NeverTimedOut(waited) == FALSE

TimedOut(waited) == waited > LockTimeout

\* const start = Date.now(), entering the loop
enterLock(p) ==
    /\ procs[p].pc = "outside"
    /\ procs' = [procs EXCEPT ![p] = [pc |-> "open", waited |-> 0, out |-> "none"]]
    /\ UNCHANGED <<lockFile, storeVars, crmVars, sideVars, fireVars, now>>

\* one turn of the loop: openSync, then the body or the EEXIST handler
tryOpen(p) ==
    /\ procs[p].pc = "open"
    /\ IF OpenExclusive(lockFile)
       THEN /\ lockFile' = p
            /\ procs' = [procs EXCEPT ![p].pc = "body"]
       ELSE /\ UNCHANGED lockFile
            /\ procs' = [procs EXCEPT ![p] =
                    IF TimedOut(procs[p].waited)
                    THEN Outside("timeout")
                    ELSE [@ EXCEPT !.pc = "asleep"]]
    /\ UNCHANGED <<storeVars, crmVars, sideVars, fireVars, now>>

\* sleep(25) returns after 25 ms, or later
wakeUp(p, late) ==
    /\ procs[p].pc = "asleep"
    /\ procs' = [procs EXCEPT ![p] =
            [pc |-> "open", out |-> "none",
             waited |-> IF late \/ procs[p].waited + SleepMs > Late
                        THEN Late ELSE procs[p].waited + SleepMs]]
    /\ UNCHANGED <<lockFile, storeVars, crmVars, sideVars, fireVars, now>>

\* variant: the lock file is left in place
LockKept(file, unlinked) == file

\* unlinkSync(LOCK_FILE), whose failure is caught and dropped
AfterUnlink(file, unlinked) == IF unlinked THEN NoFile ELSE file

\* fn() returns or throws; finally: closeSync(fd), unlinkSync(LOCK_FILE)
leaveBody(p, how, unlinked) ==
    /\ procs[p].pc = "body"
    /\ lockFile' = AfterUnlink(lockFile, unlinked)
    /\ procs' = [procs EXCEPT ![p] = Outside(how)]
    /\ UNCHANGED <<storeVars, crmVars, sideVars, fireVars, now>>

\* the process dies inside the body: nothing of withFileLock runs any more
crash(p) ==
    /\ procs[p].pc = "body"
    /\ procs' = [procs EXCEPT ![p].pc = "crashed"]
    /\ UNCHANGED <<lockFile, storeVars, crmVars, sideVars, fireVars, now>>

----------------------------------------------------------------------------
(* The files of the file adapter and the tool calls of the processes that  *)
(* share them.  A document is the set of the mutations it holds: process p *)
(* adds the mutation p.  A tool call is fileAdapter.read(), the tool, and, *)
(* when the tool changes the store, write().                               *)
(*   data, tmp  DATA_FILE and TMP_FILE                                     *)
(*   mem        per process, `data` of its adapter                         *)
(*   call       per process: "idle", "read" (in read()), "tool", "write"   *)
(*              (in write()), then "partial", "written", "renamed" as the  *)
(*              body of write() advances                                   *)
(*   written    the mutations DATA_FILE has held so far                    *)

\* a file holding the whole text of a document
Document(doc) == [state |-> "complete", doc |-> doc]

\* a file holding the beginning of a text
Partial == [state |-> "partial", doc |-> {}]

\* no such file
Absent == [state |-> "none", doc |-> {}]

FileFrame == UNCHANGED <<storeVars, fireVars, now, crmVars, issued, form, api>>

\* the lock is given up as withFileLock does on leaving the body
Leave(p, how, unlinked) ==
    /\ lockFile' = AfterUnlink(lockFile, unlinked)
    /\ procs' = [procs EXCEPT ![p] = Outside(how)]

\* the CallTool handler is entered: fileAdapter.read() is called
callTool(p) ==
    /\ disk.call[p] = "idle" /\ procs[p].pc = "outside"
    /\ disk' = [disk EXCEPT !.call[p] = "read"]
    /\ procs' = [procs EXCEPT ![p] = Outside("none")]
    /\ UNCHANGED lockFile /\ FileFrame

\* data = JSON.parse(readFileSync(DATA_FILE)); catch: data = defaultData
Parsed(file) == IF file.state = "complete" THEN file.doc ELSE {}

\* the body of read(), and the end of withFileLock
read(p, unlinked) ==
    /\ procs[p].pc = "body" /\ disk.call[p] = "read"
    /\ disk' = [disk EXCEPT !.mem[p] = Parsed(disk.data), !.call[p] = "tool"]
    /\ Leave(p, "returned", unlinked)
    /\ FileFrame

\* the tool changes the store in memory and calls db.write()
mutate(p) ==
    /\ disk.call[p] = "tool"
    /\ disk' = [disk EXCEPT !.mem[p] = @ \cup {p}, !.call[p] = "write"]
    /\ procs' = [procs EXCEPT ![p] = Outside("none")]
    /\ UNCHANGED lockFile /\ FileFrame

\* the tool only reads the store, or the call ends on the lock's timeout
toolReturns(p) ==
    /\ \/ disk.call[p] = "tool"
       \/ disk.call[p] \in {"read", "write"} /\ procs[p].out = "timeout"
    /\ disk' = [disk EXCEPT !.call[p] = "idle"]
    /\ UNCHANGED lockVars /\ FileFrame

\* variant: the document is written over DATA_FILE itself
OverData(d, file) == [d EXCEPT !.data = file]

\* writeFileSync(TMP_FILE, ...)
OverTmp(d, file) == [d EXCEPT !.tmp = file]

\* writeFileSync has opened TMP_FILE and written the beginning of the text
writeFileSync(p) ==
    /\ procs[p].pc = "body" /\ disk.call[p] = "write"
    /\ disk' = [OverTmp(disk, Partial) EXCEPT !.call[p] = "partial"]
    /\ UNCHANGED lockVars /\ FileFrame

\* writeFileSync returns: the whole text is in TMP_FILE
writeFileSyncReturns(p) ==
    /\ procs[p].pc = "body" /\ disk.call[p] = "partial"
    /\ disk' = [OverTmp(disk, Document(disk.mem[p])) EXCEPT !.call[p] = "written"]
    /\ UNCHANGED lockVars /\ FileFrame

\* writeFileSync throws (the disk is full): write() throws, TMP_FILE stays
writeFileSyncThrows(p, unlinked) ==
    /\ procs[p].pc = "body" /\ disk.call[p] = "partial"
    /\ disk' = [disk EXCEPT !.call[p] = "idle"]
    /\ Leave(p, "threw", unlinked)
    /\ FileFrame

\* variant: the document written is merged into the one DATA_FILE holds
MergedInto(old, new) == [new EXCEPT !.doc = @ \cup old.doc]

\* DATA_FILE after renameSync(TMP_FILE, DATA_FILE): the file that was TMP_FILE
RenamedOver(old, new) == new

renameSync(p) ==
    /\ procs[p].pc = "body" /\ disk.call[p] = "written"
    /\ disk' = [disk EXCEPT
            !.data = RenamedOver(disk.data, disk.tmp),
            !.tmp = Absent,
            !.written = @ \cup RenamedOver(disk.data, disk.tmp).doc,
            !.call[p] = "renamed"]
    /\ UNCHANGED lockVars /\ FileFrame

\* the body of write() has returned: the end of withFileLock, and of the tool
writeReturns(p, unlinked) ==
    /\ procs[p].pc = "body" /\ disk.call[p] = "renamed"
    /\ disk' = [disk EXCEPT !.call[p] = "idle"]
    /\ Leave(p, "returned", unlinked)
    /\ FileFrame

----------------------------------------------------------------------------
(* The REST handler (api/index.ts).  A request is one step: the lookups, the *)
(* store mutator and the triggerWebhooks calls, which are not awaited.  The  *)
(* response is last: n is the HTTP status, ok whether it is a success, log   *)
(* the mutator's write followed by the events triggered, req the body.       *)

Ok == 200
Created == 201
BadRequest == 400
NotFound == 404

\* res.status(code).json(...) after a request that changed nothing
Rejected(name, id, body, code) ==
    [Op(name, id, FALSE, code, FALSE) EXCEPT !.req = <<body>>]

\* res.json(...) after the mutator wrote and the events were triggered
Answered(name, id, body, code, events) ==
    [Op(name, id, TRUE, code, TRUE)
        EXCEPT !.req = <<body>>, !.log = <<"write">> \o events]

\* the falsy values of the body fields the handler tests
Falsy == [status |-> {""}, archived |-> {"undefined", "false"},
          sku |-> {""}, name |-> {""}]

\* body.f is truthy
Truthy(body, f) == Has(body, f) /\ body[f] \notin Falsy[f]

RestFrame == UNCHANGED <<webhooks, deliveries, handler, trig, env>>

\* POST /projects/:id/tasks
POST_tasks(projectId, body) ==
    /\ tasks' = Append(tasks, NewTask(nextId.task, projectId,
                        IF Has(body, "epic_id") THEN body.epic_id ELSE Undefined))
    /\ nextId' = [nextId EXCEPT !.task = @ + 1]
    /\ last' = Answered("POST /tasks", nextId.task, body, Created, <<"task.created">>)
    /\ UNCHANGED <<projects, epics>> /\ RestFrame

\* variant: task.status_changed whenever the body holds a status
TaskPatchEventsOnAnyStatus(prev, body) ==
    <<"task.updated">>
    \o (IF Truthy(body, "status") THEN <<"task.status_changed">> ELSE <<>>)
    \o (IF Truthy(body, "archived") /\ prev.archived # "true"
        THEN <<"task.archived">> ELSE <<>>)

\* the events PATCH /tasks/:id triggers
TaskPatchEvents(prev, body) ==
    <<"task.updated">>
    \o (IF Truthy(body, "status") /\ prev.status # body.status
        THEN <<"task.status_changed">> ELSE <<>>)
    \o (IF Truthy(body, "archived") /\ prev.archived # "true"
        THEN <<"task.archived">> ELSE <<>>)

\* PATCH /tasks/:id
PATCH_tasks_id(id, body) ==
    LET index == FindIndexById(tasks, id)
    IN  /\ tasks' = UpdatedTasks(tasks, id, body)
        /\ last' = IF index = 0
                   THEN Rejected("PATCH /tasks/:id", id, body, NotFound)
                   ELSE Answered("PATCH /tasks/:id", id, body, Ok,
                                 TaskPatchEvents(tasks[index], body))
        /\ UNCHANGED <<projects, epics, nextId>> /\ RestFrame

\* DELETE /tasks/:id
DELETE_tasks_id(id) ==
    LET index == FindIndexById(tasks, id)
    IN  /\ tasks' = TasksAfterDelete(tasks, id)
        /\ last' = IF index = 0
                   THEN Rejected("DELETE /tasks/:id", id, <<>>, NotFound)
                   ELSE Answered("DELETE /tasks/:id", id, <<>>, Ok, <<"task.deleted">>)
        /\ UNCHANGED <<projects, epics, nextId>> /\ RestFrame

\* variant: the events are triggered before the mutator's result is looked at
RespondAfterEvents(name, id, body, found, events) ==
    IF found THEN Answered(name, id, body, Ok, events)
    ELSE [Rejected(name, id, body, NotFound) EXCEPT !.log = events]

\* the response to a request on /x/:id: 404 when the mutator found no
\* entity, else success after the write and the events
Respond(name, id, body, found, events) ==
    IF found THEN Answered(name, id, body, Ok, events)
    ELSE Rejected(name, id, body, NotFound)

\* POST /projects
POST_projects(body) ==
    /\ projects' = Append(projects, [id |-> nextId.project, name |-> body.name])
    /\ nextId' = [nextId EXCEPT !.project = @ + 1]
    /\ last' = Answered("POST /projects", nextId.project, body, Created,
                        <<"project.created">>)
    /\ UNCHANGED <<epics, tasks>> /\ RestFrame

\* PATCH /projects/:id
PATCH_projects_id(id, body) ==
    /\ projects' = Updated(projects, id, body)
    /\ last' = Respond("PATCH /projects/:id", id, body,
                       FindIndexById(projects, id) # 0, <<"project.updated">>)
    /\ UNCHANGED <<epics, tasks, nextId>> /\ RestFrame

\* DELETE /projects/:id: deleteProject returns nothing, and the answer is
\* { success: true } whether or not the project was there
DELETE_projects_id(id) ==
    LET found == FindIndexById(projects, id) # 0
    IN  /\ projects' = IF found THEN Splice(projects, FindIndexById(projects, id))
                       ELSE projects
        /\ epics' = IF found THEN NotOfProject(epics, id) ELSE epics
        /\ tasks' = IF found THEN NotOfProject(tasks, id) ELSE tasks
        /\ last' = IF found
                   THEN Answered("DELETE /projects/:id", id, <<>>, Ok,
                                 <<"project.deleted">>)
                   ELSE [Op("DELETE /projects/:id", id, TRUE, Ok, FALSE)
                            EXCEPT !.req = <<(<<>>)>>]
        /\ UNCHANGED nextId /\ RestFrame

\* POST /projects/:id/epics
POST_epics(projectId, body) ==
    /\ epics' = Append(epics,
            [id |-> nextId.epic, status |-> "planning", depends_on |-> <<>>,
             project_id |-> projectId])
    /\ nextId' = [nextId EXCEPT !.epic = @ + 1]
    /\ last' = Answered("POST /epics", nextId.epic, body, Created, <<"epic.created">>)
    /\ UNCHANGED <<projects, tasks>> /\ RestFrame

\* PATCH /epics/:id
PATCH_epics_id(id, body) ==
    /\ epics' = Updated(epics, id, body)
    /\ last' = Respond("PATCH /epics/:id", id, body,
                       FindIndexById(epics, id) # 0, <<"epic.updated">>)
    /\ UNCHANGED <<projects, tasks, nextId>> /\ RestFrame

\* DELETE /epics/:id
DELETE_epics_id(id) ==
    LET found == FindIndexById(epics, id) # 0
    IN  /\ epics' = IF found THEN Splice(epics, FindIndexById(epics, id)) ELSE epics
        /\ tasks' = IF found THEN ClearEpic(tasks, id) ELSE tasks
        /\ last' = Respond("DELETE /epics/:id", id, <<>>, found, <<"epic.deleted">>)
        /\ UNCHANGED <<projects, nextId>> /\ RestFrame

CrmRestFrame == UNCHANGED <<projects, epics, tasks, deliveries, handler, trig,
                            lockVars, fireVars, now, sideVars>>

\* body.name, body.url and body.events are all there
WebhookFields(body) == Has(body, "name") /\ Has(body, "url") /\ Has(body, "events")

\* POST /webhooks
POST_webhooks(body) ==
    /\ IF ~WebhookFields(body)
       THEN /\ UNCHANGED <<webhooks, nextId>>
            /\ last' = Rejected("POST /webhooks", Undefined, body, BadRequest)
       ELSE /\ webhooks' = Append(webhooks,
                    [id |-> nextId.webhook, events |-> body.events,
                     enabled |-> IF Has(body, "enabled") THEN body.enabled ELSE TRUE,
                     project_id |-> IF Has(body, "project_id") THEN body.project_id
                                    ELSE Undefined])
            /\ nextId' = [nextId EXCEPT !.webhook = @ + 1]
            /\ last' = Answered("POST /webhooks", nextId.webhook, body, Created, <<>>)
    /\ UNCHANGED crmVars /\ CrmRestFrame

\* PATCH /webhooks/:id
PATCH_webhooks_id(id, body) ==
    /\ webhooks' = Updated(webhooks, id, body)
    /\ last' = Respond("PATCH /webhooks/:id", id, body,
                       FindIndexById(webhooks, id) # 0, <<>>)
    /\ UNCHANGED <<projects, epics, tasks, nextId>> /\ RestFrame

\* DELETE /webhooks/:id
DELETE_webhooks_id(id) ==
    LET found == FindIndexById(webhooks, id) # 0
    IN  /\ webhooks' = IF found THEN Splice(webhooks, FindIndexById(webhooks, id))
                       ELSE webhooks
        /\ deliveries' = IF found
                         THEN SelectSeq(deliveries, LAMBDA d : NotOfWebhook(id, d))
                         ELSE deliveries
        /\ last' = Respond("DELETE /webhooks/:id", id, <<>>, found, <<>>)
        /\ UNCHANGED <<projects, epics, tasks, handler, trig, env, nextId>>

\* POST /products; category and sellPrice are in every body of the model
POST_products(body) ==
    /\ IF ~(Truthy(body, "sku") /\ Truthy(body, "name"))
       THEN /\ UNCHANGED <<products, nextId>>
            /\ last' = Rejected("POST /products", Undefined, body, BadRequest)
       ELSE IF getProductBySku(products, body.sku) # 0
       THEN /\ UNCHANGED <<products, nextId>>
            /\ last' = Rejected("POST /products", Undefined, body, BadRequest)
       ELSE /\ products' = Append(products, NewProduct(nextId.product, body))
            /\ nextId' = [nextId EXCEPT !.product = @ + 1]
            /\ last' = Answered("POST /products", nextId.product, body, Created,
                                <<"product.created">>)
    /\ UNCHANGED <<webhooks, customers, quotes>> /\ CrmRestFrame

\* variant: the SKU of a PATCH is not looked up
SkuFree(ps, prev, body) == FALSE

\* "SKU exists": b.sku && prev, and the product found by SKU is not prev
SkuTaken(ps, prev, body) ==
    /\ Truthy(body, "sku") /\ prev # 0
    /\ getProductBySku(ps, body.sku) # 0
    /\ ps[getProductBySku(ps, body.sku)].id # ps[prev].id

\* PATCH /products/:id
PATCH_products_id(id, body) ==
    LET prev == FindIndexById(products, id)
    IN  /\ IF SkuTaken(products, prev, body)
           THEN /\ products' = products
                /\ last' = Rejected("PATCH /products/:id", id, body, BadRequest)
           ELSE /\ products' = UpdatedEntities(products, id, body)
                /\ last' = Respond("PATCH /products/:id", id, body, prev # 0,
                                   <<"product.updated">>)
        /\ UNCHANGED <<webhooks, customers, quotes, nextId>> /\ CrmRestFrame

\* DELETE /products/:id
DELETE_products_id(id) ==
    /\ products' = SoftDeleted(products, id)
    /\ last' = Respond("DELETE /products/:id", id, <<>>,
                       FindIndexById(products, id) # 0, <<"product.deleted">>)
    /\ UNCHANGED <<webhooks, customers, quotes, nextId>> /\ CrmRestFrame

\* The MCP tools on products.  args holds sku and name (create_product),
\* or id and the optional sku and name (update_product).

\* create_product: "Check for duplicate SKU", then createProduct
create_product(args) ==
    /\ IF getProductBySku(products, args.sku) # 0
       THEN /\ UNCHANGED <<products, nextId>>
            /\ last' = [Op("create_product", Undefined, FALSE, 0, FALSE)
                        EXCEPT !.req = <<args>>]
       ELSE /\ products' = Append(products, NewProduct(nextId.product, args))
            /\ nextId' = [nextId EXCEPT !.product = @ + 1]
            /\ last' = [Op("create_product", nextId.product, TRUE, 0, TRUE)
                        EXCEPT !.req = <<args>>]
    /\ UNCHANGED <<webhooks, customers, quotes>> /\ CrmRestFrame

\* "Check for duplicate SKU if updating SKU"
SkuOfAnother(ps, args) ==
    /\ Truthy(args, "sku")
    /\ getProductBySku(ps, args.sku) # 0
    /\ ps[getProductBySku(ps, args.sku)].id # args.id

\* the updates object update_product builds
ProductUpdates(args) == [f \in {g \in {"sku", "name"} : Truthy(args, g)} |-> args[f]]

\* update_product
update_product(args) ==
    LET index == FindIndexById(products, args.id)
        refused == SkuOfAnother(products, args)
    IN  /\ products' = IF refused THEN products
                       ELSE UpdatedEntities(products, args.id, ProductUpdates(args))
        /\ last' = [Op("update_product", args.id, ~refused /\ index # 0, 0,
                       ~refused /\ index # 0)
                    EXCEPT !.req = <<args>>]
        /\ UNCHANGED <<webhooks, customers, quotes, nextId>> /\ CrmRestFrame

\* POST /customers; type is in every body of the model
POST_customers(body) ==
    /\ IF ~Has(body, "name")
       THEN /\ UNCHANGED <<customers, nextId>>
            /\ last' = Rejected("POST /customers", Undefined, body, BadRequest)
       ELSE /\ customers' = Append(customers, NewCustomer(nextId.customer, body))
            /\ nextId' = [nextId EXCEPT !.customer = @ + 1]
            /\ last' = Answered("POST /customers", nextId.customer, body, Created,
                                <<"customer.created">>)
    /\ UNCHANGED <<webhooks, products, quotes>> /\ CrmRestFrame

\* PATCH /customers/:id
PATCH_customers_id(id, body) ==
    /\ customers' = UpdatedEntities(customers, id, body)
    /\ last' = Respond("PATCH /customers/:id", id, body,
                       FindIndexById(customers, id) # 0, <<"customer.updated">>)
    /\ UNCHANGED <<webhooks, products, quotes, nextId>> /\ CrmRestFrame

\* DELETE /customers/:id
DELETE_customers_id(id) ==
    /\ customers' = SoftDeleted(customers, id)
    /\ last' = Respond("DELETE /customers/:id", id, <<>>,
                       FindIndexById(customers, id) # 0, <<"customer.deleted">>)
    /\ UNCHANGED <<webhooks, products, quotes, nextId>> /\ CrmRestFrame

\* POST /quotes: 400 on missing fields, and on the ValidationError of
\* createQuote
POST_quotes(body) ==
    /\ IF ~(Has(body, "customerId") /\ Has(body, "lineItems")
                /\ Len(body.lineItems) > 0 /\ Resolvable(body))
       THEN /\ UNCHANGED <<quotes, nextId>>
            /\ last' = Rejected("POST /quotes", Undefined, body, BadRequest)
       ELSE /\ quotes' = Append(quotes, NewQuote(nextId.quote, body))
            /\ nextId' = [nextId EXCEPT !.quote = @ + 1]
            /\ last' = Answered("POST /quotes", nextId.quote, body, Created,
                                <<"quote.created">>)
    /\ UNCHANGED <<webhooks, products, customers>> /\ CrmRestFrame

\* the events of the two PATCH handlers of a quote
QuotePatchEvents(prev, body) ==
    <<"quote.updated">>
    \o (IF Has(body, "status") /\ prev.status # body.status
        THEN <<"quote.status_changed">> ELSE <<>>)

\* PATCH /quotes/:id/status
PATCH_quotes_id_status(id, body) ==
    LET prev == FindIndexById(quotes, id)
    IN  /\ IF prev = 0
           THEN /\ quotes' = quotes
                /\ last' = Rejected("PATCH /quotes/:id/status", id, body, NotFound)
           ELSE IF ~Has(body, "status")
           THEN /\ quotes' = quotes
                /\ last' = Rejected("PATCH /quotes/:id/status", id, body, BadRequest)
           ELSE /\ quotes' = WithStatus(quotes, id, body.status)
                /\ last' = Answered("PATCH /quotes/:id/status", id, body, Ok,
                                    QuotePatchEvents(quotes[prev], body))
        /\ UNCHANGED <<webhooks, products, customers, nextId>> /\ CrmRestFrame

\* PATCH /quotes/:id: 400 on the ValidationError of updateQuote
PATCH_quotes_id(id, body) ==
    LET prev == FindIndexById(quotes, id)
    IN  /\ IF prev = 0
           THEN /\ quotes' = quotes
                /\ last' = Rejected("PATCH /quotes/:id", id, body, NotFound)
           ELSE IF ~Resolvable(body)
           THEN /\ quotes' = quotes
                /\ last' = Rejected("PATCH /quotes/:id", id, body, BadRequest)
           ELSE /\ quotes' = UpdatedEntities(quotes, id, body)
                /\ last' = Answered("PATCH /quotes/:id", id, body, Ok,
                                    QuotePatchEvents(quotes[prev], body))
        /\ UNCHANGED <<webhooks, products, customers, nextId>> /\ CrmRestFrame

\* DELETE /quotes/:id
DELETE_quotes_id(id) ==
    LET found == FindIndexById(quotes, id) # 0
    IN  /\ quotes' = IF found THEN Splice(quotes, FindIndexById(quotes, id)) ELSE quotes
        /\ last' = Respond("DELETE /quotes/:id", id, <<>>, found, <<"quote.deleted">>)
        /\ UNCHANGED <<webhooks, products, customers, nextId>> /\ CrmRestFrame

\* request bodies
ProductBodies ==
    {[sku |-> k, name |-> "n1"] : k \in Skus \cup {""}} \cup {[name |-> "n1"]}
ProductPatches == {[sku |-> k] : k \in Skus \cup {""}} \cup {[name |-> "n2"]}
CustomerBodies == {[name |-> "n1"], <<>>}
QuoteBodies ==
    {[customerId |-> FirstIds.customer, lineItems |-> <<q>>] :
        q \in {FirstIds.product, FirstIds.product + 1}}
QuotePatches ==
    {[status |-> st] : st \in {"draft", "sent"}}
    \cup {[lineItems |-> <<FirstIds.product + 1>>]}
QuoteStatusBodies == {[status |-> st] : st \in {"draft", "sent"}} \cup {<<>>}
WebhookBodies ==
    {[name |-> "n1", url |-> "u", events |-> {"task.created"}], [name |-> "n1"]}

\* request bodies of PATCH /tasks/:id
TaskBodies ==
    {[status |-> st] : st \in STATUSES}
    \cup {[archived |-> "true"], [status |-> "done", archived |-> "true"]}

----------------------------------------------------------------------------
(* The Firestore adapter (firebase-adapter.ts) under the store: every       *)
(* mutator ends in db.write(), which starts a writeAsync and returns.  The *)
(* collections modelled are epics and tasks; a collection of documents is  *)
(* a set of records, the document id being the record's id.                *)

MaxWrites == 3      \* write() calls in one behaviour

\* writePromise = null
NoPromise == 0

NoDocs == [epics |-> {}, tasks |-> {}]

\* the elements of an array
Range(s) == {s[i] : i \in 1 .. Len(s)}

\* the value a field has when it is undefined
UndefinedOf == [epic_id |-> Undefined, archived |-> "undefined"]

\* ignoreUndefinedProperties: a field whose value is undefined is not sent
IsUndefined(f, v) == f \in DOMAIN UndefinedOf /\ v = UndefinedOf[f]

\* batch.set(ref, data, { merge: true }) on the document r.id
MergeDoc(docs, r) ==
    IF \E d \in docs : d.id = r.id
    THEN LET d == CHOOSE d \in docs : d.id = r.id
         IN  [f \in DOMAIN r |-> IF IsUndefined(f, r[f]) THEN d[f] ELSE r[f]]
    ELSE r

\* a collection after the sets of one batch; documents not in the batch stay
Committed(docs, recs) ==
    {d \in docs : \A r \in Range(recs) : r.id # d.id}
        \cup {MergeDoc(docs, r) : r \in Range(recs)}

\* write(): writePromise = writeAsync(); the batch holds the arrays as they
\* are at the call, the commit is awaited inside writeAsync.  write() returns
\* at once and the mutator returns to its caller: threw, whether the mutator
\* that made the call ended with a thrown error, is false.
FirestoreWrite(es, ts) ==
    /\ writes' = Append(writes, [epics |-> es, tasks |-> ts, state |-> "pending",
                                 threw |-> FALSE])
    /\ writePromise' = Len(writes) + 1

\* what a mutator running on the Firestore adapter leaves unchanged
MirrorFrame == UNCHANGED <<projects, webhooks, deliveries, handler, trig,
                           lockVars, now, remote, flush, hydrated, crmVars, sideVars>>

mirrorCreateEpic(projectId) ==
    /\ Len(writes) < MaxWrites
    /\ epics' = Append(epics,
            [id |-> nextId.epic, status |-> "planning", depends_on |-> <<>>,
             project_id |-> projectId])
    /\ nextId' = [nextId EXCEPT !.epic = @ + 1]
    /\ last' = Op("createEpic", nextId.epic, TRUE, 0, TRUE)
    /\ FirestoreWrite(epics', tasks)
    /\ UNCHANGED tasks /\ MirrorFrame

mirrorCreateTask(projectId, epicId) ==
    /\ Len(writes) < MaxWrites
    /\ tasks' = Append(tasks, NewTask(nextId.task, projectId, epicId))
    /\ nextId' = [nextId EXCEPT !.task = @ + 1]
    /\ last' = Op("createTask", nextId.task, TRUE, 0, TRUE)
    /\ FirestoreWrite(epics, tasks')
    /\ UNCHANGED epics /\ MirrorFrame

mirrorUpdateTask(id, updates) ==
    /\ Len(writes) < MaxWrites
    /\ FindIndexById(tasks, id) # 0
    /\ tasks' = UpdatedTasks(tasks, id, updates)
    /\ last' = Op("updateTask", id, TRUE, 0, TRUE)
    /\ FirestoreWrite(epics, tasks')
    /\ UNCHANGED <<epics, nextId>> /\ MirrorFrame

mirrorDeleteTask(id) ==
    /\ Len(writes) < MaxWrites
    /\ FindIndexById(tasks, id) # 0
    /\ tasks' = TasksAfterDelete(tasks, id)
    /\ last' = Op("deleteTask", id, TRUE, 0, TRUE)
    /\ FirestoreWrite(epics, tasks')
    /\ UNCHANGED <<epics, nextId>> /\ MirrorFrame

mirrorDeleteEpic(id) ==
    /\ Len(writes) < MaxWrites
    /\ FindIndexById(epics, id) # 0
    /\ epics' = Splice(epics, FindIndexById(epics, id))
    /\ tasks' = ClearEpic(tasks, id)
    /\ last' = Op("deleteEpic", id, TRUE, 0, TRUE)
    /\ FirestoreWrite(epics', tasks')
    /\ UNCHANGED nextId /\ MirrorFrame

\* await adapter.writePromise: the promise of the last writeAsync
Settled(ws, on) == ws[on].state # "pending"

\* how an await of the write `on` ends
Awaited(ws, on) == IF ws[on].state = "committed" THEN "resolved" ELSE "rejected"

\* await batch.commit() of the k-th writeAsync ends: the batch is applied, or
\* the commit fails and the promise rejects; a flush awaiting it continues
commit(k, ok) ==
    /\ k \in 1 .. Len(writes) /\ writes[k].state = "pending"
    /\ writes' = [writes EXCEPT ![k].state = IF ok THEN "committed" ELSE "failed"]
    /\ remote' = IF ok
                 THEN [epics |-> Committed(remote.epics, writes[k].epics),
                       tasks |-> Committed(remote.tasks, writes[k].tasks)]
                 ELSE remote
    /\ flush' = IF flush.pc = "awaiting" /\ Settled(writes', flush.on)
                THEN [flush EXCEPT !.pc = Awaited(writes', flush.on)]
                ELSE flush
    /\ UNCHANGED <<storeVars, crmVars, sideVars, lockVars, now, writePromise, hydrated>>

\* flushFirestoreWrites(adapter)
flushFirestoreWrites ==
    /\ flush.pc # "awaiting"
    /\ flush' = [pc |-> IF writePromise = NoPromise THEN "resolved"
                        ELSE IF Settled(writes, writePromise)
                             THEN Awaited(writes, writePromise)
                             ELSE "awaiting",
                 on |-> writePromise, issued |-> Len(writes)]
    /\ UNCHANGED <<storeVars, crmVars, sideVars, lockVars, now, remote, writes, writePromise, hydrated>>

\* readAsync() of a fresh adapter; issued and flushed tell whether it ran
\* after a flush that resolved with no write issued since that flush began
\* and every write committed
readAsync ==
    /\ hydrated' = [epics |-> remote.epics, tasks |-> remote.tasks,
                    issued |-> Len(writes),
                    flushed |-> /\ flush.pc = "resolved"
                                /\ flush.issued = Len(writes)
                                /\ \A k \in 1 .. Len(writes) :
                                        writes[k].state = "committed"]
    /\ UNCHANGED <<storeVars, crmVars, sideVars, lockVars, now, remote, writes, writePromise, flush>>

----------------
(* Specifications. *)

----------------------------------------------------------------------------
(* The totals of the quote form.  A JavaScript number is an IEEE-754       *)
(* double: the model keeps a positive double as m * 2^e with               *)
(* 2^52 <= m < 2^53 (0 as the empty m), m being a natural number written   *)
(* in limbs of 14 bits, least significant first, and rounds each operation *)
(* to the nearest double, ties to even, as the runtime does.               *)

Base == 2 ^ 14

\* the bits of a limb
LimbBits == CHOOSE k \in 1 .. 30 : 2 ^ k = Base

\* the bits of the significand of a double
MantissaBits == 53

Limb(a, i) == IF i <= Len(a) THEN a[i] ELSE 0

\* the limbs of the number whose unnormalised limbs are s, plus c
RECURSIVE Carry(_, _)
Carry(s, c) ==
    IF s = <<>>
    THEN IF c = 0 THEN <<>> ELSE <<c % Base>> \o Carry(<<>>, c \div Base)
    ELSE <<(s[1] + c) % Base>> \o Carry(Tail(s), (s[1] + c) \div Base)

RECURSIVE Trim(_)
Trim(s) ==
    IF s # <<>> /\ s[Len(s)] = 0 THEN Trim(SubSeq(s, 1, Len(s) - 1)) ELSE s

BigOf(n) == Trim(Carry(<<n>>, 0))

RECURSIVE BigToInt(_)
BigToInt(a) == IF a = <<>> THEN 0 ELSE a[1] + Base * BigToInt(Tail(a))

BigAdd(a, b) ==
    LET n == IF Len(a) > Len(b) THEN Len(a) ELSE Len(b)
    IN  Trim(Carry([i \in 1 .. n |-> Limb(a, i) + Limb(b, i)], 0))

\* a - b, for a >= b
BigSub(a, b) ==
    Trim(Carry([i \in 1 .. Len(a) |-> a[i] - Limb(b, i)], 0))

RECURSIVE Column(_, _, _, _)
Column(a, b, k, i) ==
    IF i > Len(a) THEN 0
    ELSE (IF k + 1 - i \in 1 .. Len(b) THEN a[i] * b[k + 1 - i] ELSE 0)
            + Column(a, b, k, i + 1)

BigMul(a, b) ==
    Trim(Carry([k \in 1 .. Len(a) + Len(b) |-> Column(a, b, k, 1)], 0))

BigMulSmall(a, n) == Trim(Carry([i \in 1 .. Len(a) |-> a[i] * n], 0))

RECURSIVE DivFrom(_, _, _)
DivFrom(a, n, rem) ==
    IF a = <<>> THEN [q |-> <<>>, r |-> rem]
    ELSE LET top == rem * Base + a[Len(a)]
             low == DivFrom(SubSeq(a, 1, Len(a) - 1), n, top % n)
         IN  [q |-> Append(low.q, top \div n), r |-> low.r]

\* quotient and remainder of a by the small number n
BigDivSmall(a, n) ==
    LET d == DivFrom(a, n, 0) IN [q |-> Trim(d.q), r |-> d.r]

BitsOf(x) ==
    CHOOSE k \in 0 .. LimbBits : 2 ^ k > x /\ (k = 0 \/ 2 ^ (k - 1) <= x)

BitLen(a) == IF a = <<>> THEN 0 ELSE (Len(a) - 1) * LimbBits + BitsOf(a[Len(a)])

ShiftLeft(a, n) ==
    IF a = <<>> THEN <<>>
    ELSE [i \in 1 .. n \div LimbBits |-> 0] \o BigMulSmall(a, 2 ^ (n % LimbBits))

ShiftRight(a, n) ==
    IF n \div LimbBits >= Len(a) THEN <<>>
    ELSE BigDivSmall(SubSeq(a, n \div LimbBits + 1, Len(a)), 2 ^ (n % LimbBits)).q

Zero == [m |-> <<>>, e |-> 0]

\* the double nearest to M * 2^E (plus a fraction of its last bit when
\* sticky), ties to even
RoundToDouble(M, E, sticky) ==
    LET L == BitLen(M)
    IN  IF L = 0 THEN Zero
        ELSE IF L <= MantissaBits
        THEN [m |-> ShiftLeft(M, MantissaBits - L), e |-> E - (MantissaBits - L)]
        ELSE LET n == L - MantissaBits
                 q2 == ShiftRight(M, n - 1)
                 guard == q2[1] % 2
                 lost == sticky \/ ShiftLeft(q2, n - 1) # M
                 q == ShiftRight(q2, 1)
                 up == guard = 1 /\ (lost \/ q[1] % 2 = 1)
                 r == IF up THEN BigAdd(q, <<1>>) ELSE q
             IN  IF BitLen(r) > MantissaBits
                 THEN [m |-> ShiftRight(r, 1), e |-> E + n + 1]
                 ELSE [m |-> r, e |-> E + n]

\* the double of a natural number below 2^31
ToDouble(n) == IF n = 0 THEN Zero ELSE RoundToDouble(BigOf(n), 0, FALSE)

\* x * y
FMul(x, y) ==
    IF x = Zero \/ y = Zero THEN Zero
    ELSE RoundToDouble(BigMul(x.m, y.m), x.e + y.e, FALSE)

\* x / n for a small natural number n; eight more bits of the quotient leave
\* a bit to round on, the remainder says whether more was lost
FDiv(x, n) ==
    IF x = Zero THEN Zero
    ELSE LET d == BigDivSmall(ShiftLeft(x.m, 8), n)
         IN  RoundToDouble(d.q, x.e - 8, d.r # 0)

Aligned(x, e0) == ShiftLeft(x.m, x.e - e0)

MinExp(x, y) == IF x.e < y.e THEN x.e ELSE y.e

\* x + y
FAdd(x, y) ==
    IF x = Zero THEN y
    ELSE IF y = Zero THEN x
    ELSE LET e0 == MinExp(x, y)
         IN  RoundToDouble(BigAdd(Aligned(x, e0), Aligned(y, e0)), e0, FALSE)

\* x - y, for x >= y
FSub(x, y) ==
    IF y = Zero THEN x
    ELSE LET e0 == MinExp(x, y)
         IN  RoundToDouble(BigSub(Aligned(x, e0), Aligned(y, e0)), e0, FALSE)

\* variant: Math.floor
MathFloor(x) ==
    IF x = Zero THEN 0
    ELSE IF x.e >= 0 THEN BigToInt(ShiftLeft(x.m, x.e))
    ELSE BigToInt(ShiftRight(x.m, 0 - x.e))

\* Math.round(x): the integer floor(x + 1/2), for x below 2^30
MathRound(x) ==
    IF x = Zero THEN 0
    ELSE IF x.e >= 0 THEN BigToInt(ShiftLeft(x.m, x.e))
    ELSE (BigToInt(ShiftRight(x.m, (0 - x.e) - 1)) + 1) \div 2

\* the number a field of the form holds when its text is cents / 100
Number(cents) == FDiv(ToDouble(cents), 100)

\* useState(10)
DefaultTaxRate == 10

MaxLineItems == 2   \* line items of the form

\* A line item of the form: quantity and discount are whole numbers,
\* unitPrice is kept in cents and read as the number cents / 100.
calculateLineTotal(item) ==
    FDiv(ToDouble(MathRound(
            FMul(FMul(FMul(ToDouble(item.quantity), Number(item.unitPrice)),
                      FSub(ToDouble(1), FDiv(ToDouble(item.discount), 100))),
                 ToDouble(100)))),
         100)

\* formLineItems.reduce((sum, item) => sum + calculateLineTotal(item), 0)
RECURSIVE Reduce(_, _)
Reduce(items, sum) ==
    IF items = <<>> THEN sum
    ELSE Reduce(Tail(items), FAdd(sum, calculateLineTotal(items[1])))

calculateSubtotal(items) == Reduce(items, ToDouble(0))

calculateTax(items, taxRate) ==
    FDiv(ToDouble(MathRound(
            FMul(FDiv(FMul(calculateSubtotal(items), ToDouble(taxRate)), 100),
                 ToDouble(100)))),
         100)

calculateTotal(items, taxRate) ==
    FDiv(ToDouble(MathRound(
            FMul(FAdd(calculateSubtotal(items), calculateTax(items, taxRate)),
                 ToDouble(100)))),
         100)

FormFrame == UNCHANGED <<storeVars, lockVars, fireVars, now, crmVars, issued, api, disk>>

addLineItem ==
    /\ Len(form.lineItems) < MaxLineItems
    /\ form' = [form EXCEPT
            !.lineItems = Append(@, [quantity |-> 1, unitPrice |-> 0, discount |-> 0]),
            !.shown = <<>>]
    /\ FormFrame

removeLineItem(index) ==
    /\ index \in 1 .. Len(form.lineItems)
    /\ form' = [form EXCEPT
            !.lineItems = IF Len(@) > 1 THEN Splice(@, index) ELSE @,
            !.shown = <<>>]
    /\ FormFrame

\* updated[index] = { ...updated[index], [field]: value }
updateLineItem(index, field, value) ==
    /\ index \in 1 .. Len(form.lineItems)
    /\ form' = [form EXCEPT !.lineItems[index][field] = value, !.shown = <<>>]
    /\ FormFrame

setFormTaxRate(taxRate) ==
    /\ form' = [form EXCEPT !.taxRate = taxRate, !.shown = <<>>]
    /\ FormFrame

\* the form is rendered: the line totals and the three totals under them
render ==
    /\ form.shown = <<>>
    /\ form.lineItems # <<>>
    /\ form' = [form EXCEPT !.shown =
            [lineTotals |-> [i \in 1 .. Len(form.lineItems) |->
                                calculateLineTotal(form.lineItems[i])],
             subtotal |-> calculateSubtotal(form.lineItems),
             taxAmount |-> calculateTax(form.lineItems, form.taxRate),
             total |-> calculateTotal(form.lineItems, form.taxRate)]]
    /\ FormFrame

\* what the fields of the form are set to
Quantities == {1, 2}
UnitPrices == {29, 5000, 10000}
Discounts == {0, 10, 50}
TaxRates == {0, DefaultTaxRate}

----------------------------------------------------------------------------
(* The start of the REST process.  Every request awaits init(); the code   *)
(* of init() up to its await runs in one piece, and so does the handler    *)
(* from the return of init() on.                                           *)
(*   initialized  the flag of the module                                   *)
(*   db           the adapter setStorageAdapter was last given (0: none)   *)
(*   sets         the calls of setStorageAdapter so far                    *)
(*   adapters     per adapter created, its readAsync: "reading", "done",   *)
(*                "failed"                                                 *)
(*   reqs         per request: pc, the adapter its init() awaits, and,     *)
(*                once answered, what it was served from                   *)

MaxRequests == 3    \* requests the process receives

Requests == 1 .. MaxRequests

NoAdapter == 0

Waiting == [pc |-> "idle", adapter |-> NoAdapter, served |-> <<>>]

\* the handler past `await init()`: the routes read and change db.data
Served(a) ==
    [pc |-> "done", adapter |-> NoAdapter,
     served |-> [adapter |-> a.db, read |-> a.adapters[a.db]]]

\* catch (e): res.status(500)
Refused == [pc |-> "done", adapter |-> NoAdapter,
            served |-> [adapter |-> NoAdapter, read |-> "none"]]

InitFrame == UNCHANGED <<storeVars, lockVars, fireVars, now, crmVars, issued, form, disk>>

\* handler(req, res) up to the await in init(): with initialized set, init()
\* returns and the request is handled; otherwise an adapter is created, made
\* the storage adapter, and its readAsync() is awaited
handlerEnters(r) ==
    /\ api.reqs[r].pc = "idle"
    /\ IF api.initialized
       THEN api' = [api EXCEPT !.reqs[r] = Served(api)]
       ELSE LET adapter == Len(api.adapters) + 1
            IN  api' = [api EXCEPT
                    !.adapters = Append(@, "reading"),
                    !.db = adapter,
                    !.sets = @ + 1,
                    !.reqs[r] = [Waiting EXCEPT !.pc = "awaiting", !.adapter = adapter]]
    /\ InitFrame

\* the promise of an adapter's readAsync() settles
readAsyncSettles(adapter, outcome) ==
    /\ adapter \in 1 .. Len(api.adapters)
    /\ api.adapters[adapter] = "reading"
    /\ api' = [api EXCEPT !.adapters[adapter] = outcome]
    /\ InitFrame

\* init() resumes after its await: initialized = true and the request is
\* handled, or the rejection is answered with 500
initResumes(r) ==
    /\ api.reqs[r].pc = "awaiting"
    /\ api.adapters[api.reqs[r].adapter] # "reading"
    /\ IF api.adapters[api.reqs[r].adapter] = "done"
       THEN api' = [api EXCEPT !.initialized = TRUE, !.reqs[r] = Served(api)]
       ELSE api' = [api EXCEPT !.reqs[r] = Refused]
    /\ InitFrame

----------------------------------------------------------------------------
(* generateId() returns seven characters drawn from Math.random(): any id  *)
(* of IdSpace may come out of a call, one that is in use included.  The    *)
(* create operations store what it returns and compare it with nothing.    *)

MaxIdSpace == 2     \* the strings generateId() can return

IdSpace == 1 .. MaxIdSpace

\* const project = { id: generateId(), ... }; push; write
createProjectWithId(id) ==
    /\ projects' = Append(projects, [id |-> id, name |-> "n1"])
    /\ issued' = [issued EXCEPT !.project = @ \cup {id}]
    /\ last' = Op("createProject", id, TRUE, 0, TRUE)
    /\ UNCHANGED <<epics, tasks, webhooks, deliveries, handler, trig, nextId,
                   lockVars, fireVars, now, crmVars, form, api, disk>>

\* const task = { id: generateId(), ... }; push; write
createTaskWithId(id, projectId, epicId) ==
    /\ tasks' = Append(tasks, NewTask(id, projectId, epicId))
    /\ issued' = [issued EXCEPT !.task = @ \cup {id}]
    /\ last' = Op("createTask", id, TRUE, 0, TRUE)
    /\ UNCHANGED <<projects, epics, webhooks, deliveries, handler, trig, nextId,
                   lockVars, fireVars, now, crmVars, form, api, disk>>

Init ==
    /\ projects = <<>>
    /\ epics = <<>>
    /\ tasks = <<>>
    /\ webhooks = <<>>
    /\ deliveries = <<>>
    /\ handler = "null"
    /\ trig = IdleTrig
    /\ nextId = FirstIds
    /\ last = Op("init", 0, TRUE, 0, FALSE)
    /\ lockFile = NoFile
    /\ procs = [p \in Procs |-> Outside("none")]
    /\ remote = NoDocs
    /\ writes = <<>>
    /\ writePromise = NoPromise
    /\ flush = [pc |-> "idle", on |-> NoPromise, issued |-> 0]
    /\ hydrated = [epics |-> {}, tasks |-> {}, issued |-> 0, flushed |-> FALSE]
    /\ now = 0
    /\ products = <<>>
    /\ customers = <<>>
    /\ quotes = <<>>
    /\ issued = [project |-> {}, task |-> {}]
    /\ form = [lineItems |-> <<>>, taxRate |-> DefaultTaxRate, shown |-> <<>>]
    /\ api = [initialized |-> FALSE, db |-> NoAdapter, sets |-> 0, adapters |-> <<>>,
              reqs |-> [r \in Requests |-> Waiting]]
    /\ disk = [data |-> Document({}), tmp |-> Absent,
               mem |-> [p \in Procs |-> {}], call |-> [p \in Procs |-> "idle"],
               written |-> {}]

\* Tasks and their dependencies, all in one project.
NextTasks ==
    \/ nextId.task \in TaskIds /\ createTask(FirstIds.project, Undefined)
    \/ \E id \in TaskIds, u \in TaskDepUpdates \cup TaskStatusUpdates : updateTask(id, u)
    \/ \E id \in TaskIds : deleteTask(id)
    \/ \E t \in TaskIds, d \in Generated("task") : addDependency(t, d)
    \/ \E t \in TaskIds, d \in TaskIds : removeDependency(t, d)
    \/ \E t \in TaskIds : isTaskBlocked(t)

SpecTasks == Init /\ [][NextTasks]_vars

\* Tasks whose depends_on lists change through addDependency and
\* removeDependency only; the ids given need not be ids of tasks.
NextDeps ==
    \/ nextId.task \in TaskIds /\ createTask(FirstIds.project, Undefined)
    \/ \E id \in TaskIds, u \in TaskStatusUpdates : updateTask(id, u)
    \/ \E id \in TaskIds : deleteTask(id)
    \/ \E t \in TaskIds, d \in TaskIds : addDependency(t, d)
    \/ \E t \in TaskIds, d \in TaskIds : removeDependency(t, d)

SpecDeps == Init /\ [][NextDeps]_vars

\* Projects and tasks created with the ids generateId() returns, and deleted.
NextIds ==
    \/ \E id \in IdSpace : Len(projects) < MaxProjects /\ createProjectWithId(id)
    \/ \E id \in IdSpace, p \in IdSpace :
            Len(tasks) < MaxTasks /\ createTaskWithId(id, p, Undefined)
    \/ \E id \in IdSpace, u \in TaskStatusUpdates : updateTask(id, u)
    \/ \E id \in IdSpace : deleteTask(id)
    \/ \E id \in IdSpace : deleteProject(id)

SpecIds == Init /\ [][NextIds]_vars

\* The quote form being filled in and rendered.
NextForm ==
    \/ addLineItem
    \/ \E i \in 1 .. MaxLineItems : removeLineItem(i)
    \/ \E i \in 1 .. MaxLineItems :
            \/ \E v \in Quantities : updateLineItem(i, "quantity", v)
            \/ \E v \in UnitPrices : updateLineItem(i, "unitPrice", v)
            \/ \E v \in Discounts : updateLineItem(i, "discount", v)
    \/ \E r \in TaxRates : setFormTaxRate(r)
    \/ render

SpecForm == Init /\ [][NextForm]_vars

\* Requests reaching a REST process that has just started.
NextInit ==
    \/ \E r \in Requests : handlerEnters(r)
    \/ \E a \in Requests, o \in {"done", "failed"} : readAsyncSettles(a, o)
    \/ \E r \in Requests : initResumes(r)

SpecInit == Init /\ [][NextInit]_vars

\* Processes running tool calls on one data file.  A process that finds the
\* lock taken sleeps once here: waiting longer shows in the files as calling
\* later does.
StepFile(p) ==
    \/ callTool(p)
    \/ disk.call[p] \in {"read", "write"} /\ procs[p].out = "none" /\ enterLock(p)
    \/ tryOpen(p)
    \/ wakeUp(p, TRUE)
    \/ \E unlinked \in BOOLEAN : read(p, unlinked)
    \/ mutate(p)
    \/ toolReturns(p)
    \/ writeFileSync(p)
    \/ writeFileSyncReturns(p)
    \/ \E unlinked \in BOOLEAN : writeFileSyncThrows(p, unlinked)
    \/ renameSync(p)
    \/ \E unlinked \in BOOLEAN : writeReturns(p, unlinked)
    \/ crash(p)

NextFile == \E p \in Procs : StepFile(p)

SpecFile == Init /\ [][NextFile]_vars

\* Tasks created and changed through the MCP tools.
NextTools ==
    \/ nextId.epic = FirstIds.epic /\ createEpic(FirstIds.project)
    \/ \E e \in {Undefined} \cup Generated("epic") :
            nextId.task \in TaskIds /\ createTask(FirstIds.project, e)
    \/ \E args \in UpdateTaskArgs : update_task(args)
    \/ \E args \in MoveTaskArgs : move_task_status(args)

SpecTools == Init /\ [][NextTools]_vars

\* the number of ids generateId() has returned
Population ==
    LET Kinds == DOMAIN FirstIds
        RECURSIVE Sum(_)
        Sum(ks) == IF ks = {} THEN 0
                   ELSE LET k == CHOOSE x \in ks : TRUE
                        IN  (nextId[k] - FirstIds[k]) + Sum(ks \ {k})
    IN  Sum(Kinds)

MaxPopulation == 2

\* Every collection of the store, its entities created, updated and deleted
\* by id.
NextStore ==
    \/ /\ Population < MaxPopulation
       /\ \/ createProject
          \/ createEpic(FirstIds.project)
          \/ createTask(FirstIds.project, Undefined)
          \/ createWebhook({"task.created"}, "undefined", Undefined)
          \/ \E w \in Generated("webhook") : createWebhookDelivery(w)
          \/ createProduct([sku |-> "a", name |-> "n1"])
          \/ createCustomer([name |-> "n1"])
    \/ \E id \in ProjectIds : updateProject(id, [name |-> "n2"])
    \/ \E id \in EpicIds : updateEpic(id, [status |-> "done"])
    \/ \E id \in TaskIds : updateTask(id, [status |-> "done"])
    \/ \E id \in HookIds : updateWebhook(id, [enabled |-> FALSE])
    \/ \E id \in DeliveryIds : updateWebhookDelivery(id, [status |-> "success"])
    \/ \E id \in ProductIds : updateProduct(id, [name |-> "n2"])
    \/ \E id \in CustomerIds : updateCustomer(id, [name |-> "n2"])
    \/ \E id \in ProjectIds : deleteProject(id)
    \/ \E id \in EpicIds : deleteEpic(id)
    \/ \E id \in TaskIds : deleteTask(id)
    \/ \E id \in HookIds : deleteWebhook(id)
    \/ \E id \in ProductIds : deleteProduct(id)
    \/ \E id \in ProductIds : hardDeleteProduct(id)
    \/ \E id \in CustomerIds : deleteCustomer(id)
    \/ \E id \in CustomerIds : hardDeleteCustomer(id)
    \/ \E t \in {1} : tick(t)

SpecStore == Init /\ [][NextStore]_vars

\* ids generated in a run of the REST handler
MaxRestPopulation == 3

\* Requests to the REST handler.
NextRest ==
    \/ /\ Population < MaxRestPopulation
       /\ \/ POST_projects([name |-> "n1"])
          \/ POST_epics(FirstIds.project, <<>>)
          \/ POST_tasks(FirstIds.project, <<>>)
          \/ \E body \in WebhookBodies : POST_webhooks(body)
          \/ \E body \in {[sku |-> "a", name |-> "n1"], [name |-> "n1"]} :
                POST_products(body)
          \/ \E body \in CustomerBodies : POST_customers(body)
          \/ \E body \in QuoteBodies : POST_quotes(body)
    \/ \E id \in ProjectIds : PATCH_projects_id(id, [name |-> "n2"])
    \/ \E id \in ProjectIds : DELETE_projects_id(id)
    \/ \E id \in EpicIds : PATCH_epics_id(id, [status |-> "done"])
    \/ \E id \in EpicIds : DELETE_epics_id(id)
    \/ \E id \in TaskIds, body \in TaskBodies : PATCH_tasks_id(id, body)
    \/ \E id \in TaskIds : DELETE_tasks_id(id)
    \/ \E id \in HookIds : PATCH_webhooks_id(id, [enabled |-> FALSE])
    \/ \E id \in HookIds : DELETE_webhooks_id(id)
    \/ \E id \in ProductIds : PATCH_products_id(id, [name |-> "n2"])
    \/ \E id \in ProductIds : DELETE_products_id(id)
    \/ \E id \in CustomerIds : PATCH_customers_id(id, [name |-> "n2"])
    \/ \E id \in CustomerIds : DELETE_customers_id(id)
    \/ \E id \in QuoteIds, body \in QuoteStatusBodies : PATCH_quotes_id_status(id, body)
    \/ \E id \in QuoteIds, body \in QuotePatches : PATCH_quotes_id(id, body)
    \/ \E id \in QuoteIds : DELETE_quotes_id(id)

SpecRest == Init /\ [][NextRest]_vars

\* The catalog, changed through the REST handler and the MCP tools of one
\* process.
NextCatalog ==
    \/ \E body \in ProductBodies : nextId.product \in ProductIds /\ POST_products(body)
    \/ \E args \in ProductBodies :
            Has(args, "sku") /\ nextId.product \in ProductIds /\ create_product(args)
    \/ \E id \in ProductIds, body \in ProductPatches : PATCH_products_id(id, body)
    \/ \E id \in ProductIds, body \in ProductPatches :
            update_product([f \in DOMAIN body \cup {"id"} |->
                                IF f = "id" THEN id ELSE body[f]])
    \/ \E id \in ProductIds : DELETE_products_id(id)
    \/ \E t \in {1} : tick(t)

SpecCatalog == Init /\ [][NextCatalog]_vars

\* request bodies that name fields the typed update inputs leave out
WildBodies(ids) == {[id |-> i] : i \in ids} \cup {[createdAt |-> SevenDays]}

\* PATCH requests with arbitrary bodies on tasks, products and customers.
NextPatch ==
    \/ nextId.task = FirstIds.task /\ POST_tasks(FirstIds.project, <<>>)
    \/ nextId.product = FirstIds.product
            /\ POST_products([sku |-> "a", name |-> "n1"])
    \/ nextId.customer = FirstIds.customer /\ POST_customers([name |-> "n1"])
    \/ \E id \in TaskIds, body \in {[status |-> "done"]} \cup WildBodies(TaskIds) :
            PATCH_tasks_id(id, body)
    \/ \E id \in ProductIds, body \in {[name |-> "n2"]} \cup WildBodies(ProductIds) :
            PATCH_products_id(id, body)
    \/ \E id \in CustomerIds, body \in {[name |-> "n2"]} \cup WildBodies(CustomerIds) :
            PATCH_customers_id(id, body)
    \/ \E t \in {1} : tick(t)

SpecPatch == Init /\ [][NextPatch]_vars

\* Webhooks and their dispatch.
NextHooks ==
    \/ \E e \in EventTypes, en \in {"undefined", "false"}, p \in HookProjects :
            nextId.webhook \in HookIds /\ createWebhook({e}, en, p)
    \/ \E id \in HookIds, u \in WebhookUpdates : updateWebhook(id, u)
    \/ \E id \in HookIds : deleteWebhook(id)
    \/ \E h \in {"null", "set"} : setWebhookEventHandler(h)
    \/ \E e \in EventTypes, p \in ProjectArgs, n \in 0 .. MaxWebhooks :
            triggerWebhooks(e, p, n)
    \/ \E o \in {"resolve", "reject"}, n \in 0 .. MaxWebhooks : handlerSettles(o, n)

SpecHooks == Init /\ [][NextHooks]_vars

\* Projects with their epics and tasks: the cascades of the delete operations.
NextCascade ==
    \/ nextId.project \in ProjectIds /\ createProject
    \/ \E p \in Generated("project") :
            nextId.epic \in EpicIds /\ createEpic(p)
    \/ \E p \in Generated("project"), e \in {Undefined} \cup Generated("epic") :
            nextId.task \in TaskIds /\ createTask(p, e)
    \/ \E id \in ProjectIds : deleteProject(id)
    \/ \E id \in EpicIds : deleteEpic(id)

SpecCascade == Init /\ [][NextCascade]_vars

\* The archive sweeps over the epics and tasks of two projects.
ArchiveUpdates == {[status |-> "done"], [archived |-> "false"]}

NextArchive ==
    \/ \E p \in ProjectIds : nextId.epic \in EpicIds /\ createEpic(p)
    \/ \E p \in ProjectIds, e \in {Undefined} \cup Generated("epic") :
            nextId.task \in TaskIds /\ createTask(p, e)
    \/ \E id \in TaskIds, u \in ArchiveUpdates : updateTask(id, u)
    \/ \E p \in ProjectIds : archiveDoneTasks(p)
    \/ \E p \in ProjectIds : archiveEmptyEpics(p)
    \/ \E p \in ProjectIds, archiveTasks \in BOOLEAN, archiveEpics \in BOOLEAN :
            cleanupProject(p, archiveTasks, archiveEpics)

SpecArchive == Init /\ [][NextArchive]_vars

\* Webhooks and their delivery records, as the delivery layer drives them.
DeliveryUpdates ==
    {[status |-> st] : st \in {"pending", "success", "failed"}} \cup {[attempts |-> 1]}

NextDeliveries ==
    \/ nextId.webhook \in HookIds /\ createWebhook({"task.created"}, "undefined", Undefined)
    \/ \E w \in Generated("webhook") :
            nextId.delivery \in DeliveryIds /\ createWebhookDelivery(w)
    \/ \E id \in DeliveryIds, u \in DeliveryUpdates : updateWebhookDelivery(id, u)
    \/ \E id \in HookIds : deleteWebhook(id)
    \/ \E args \in {<<>>, <<1>>} : cleanupOldDeliveries(args)
    \/ \E t \in Times : tick(t)

SpecDeliveries == Init /\ [][NextDeliveries]_vars

\* The delivery log being filled and queried; limit is a count, 0 and above.
NextDeliveryLog ==
    \/ \E w \in HookIds : nextId.delivery \in LogIds /\ createWebhookDelivery(w)
    \/ \E t \in Times : tick(t)
    \/ \E w \in {Undefined} \cup HookIds, args \in {<<>>, <<0>>, <<1>>, <<2>>} :
            getWebhookDeliveries(w, args)

SpecDeliveryLog == Init /\ [][NextDeliveryLog]_vars

\* The store of one server process on the Firestore adapter.
NextFirestore ==
    \/ nextId.epic \in EpicIds /\ mirrorCreateEpic(FirstIds.project)
    \/ \E e \in {Undefined} \cup Generated("epic") :
            nextId.task \in TaskIds /\ mirrorCreateTask(FirstIds.project, e)
    \/ \E id \in TaskIds : mirrorUpdateTask(id, [status |-> "done"])
    \/ \E id \in TaskIds : mirrorDeleteTask(id)
    \/ \E id \in EpicIds : mirrorDeleteEpic(id)
    \/ \E k \in 1 .. MaxWrites, ok \in BOOLEAN : commit(k, ok)
    \/ flushFirestoreWrites
    \/ readAsync

SpecFirestore == Init /\ [][NextFirestore]_vars

\* Processes calling withFileLock (read() and write() of the file adapter).
StepLock(p) ==
    \/ enterLock(p)
    \/ tryOpen(p)
    \/ \E late \in BOOLEAN : wakeUp(p, late)
    \/ \E how \in {"returned", "threw"}, unlinked \in BOOLEAN :
            leaveBody(p, how, unlinked)

NextLock ==
    \/ \E p \in Procs : StepLock(p)
    \/ \E p \in Procs : crash(p)

SpecLock == Init /\ [][NextLock]_vars

\* A process that is running keeps running: each of its steps is taken
\* eventually (its body is a few synchronous file operations).
SpecLockFair == SpecLock /\ \A p \in Procs : WF_vars(StepLock(p))

----------------------------------------------------------------------------
(* Properties of the task specification. *)

TaskIdSet(ts) == {ts[i].id : i \in 1 .. Len(ts)}

\* the definition of "blocked" of the data model, stated on the collection
BlockedByDefinition(ts, t) ==
    \E i \in 1 .. Len(ts) :
        /\ ts[i].id = t
        /\ ts[i].depends_on # <<>>
        /\ \E k \in 1 .. Len(ts[i].depends_on) :
              \E j \in 1 .. Len(ts) :
                  ts[j].id = ts[i].depends_on[k] /\ ts[j].status # "done"

\* C1: isTaskBlocked(t) returns true iff task t exists, depends_on is not
\* empty and some id in it is that of an existing task whose status is not
\* 'done'; the result always reflects the task collection as it is at the call.
C1_BlockedIffOpenDependency ==
    last.op = "isTaskBlocked" =>
        (last.ok <=> BlockedByDefinition(tasks, last.arg))

\* C1 witness: a call answered false for a task whose depends_on holds a
\* dangling id and the id of an existing task that is done.
C1_Witness ==
    /\ last.op = "isTaskBlocked"
    /\ ~last.ok
    /\ \E i \in 1 .. Len(tasks) :
          /\ tasks[i].id = last.arg
          /\ \E k \in 1 .. Len(tasks[i].depends_on) :
                tasks[i].depends_on[k] \notin TaskIdSet(tasks)
          /\ \E k \in 1 .. Len(tasks[i].depends_on) :
                tasks[i].depends_on[k] \in TaskIdSet(tasks)

\* C2: after deleteTask(T) returned true, T is in no depends_on list and is
\* no task, and every other depends_on list is the old one without T, in
\* the old order.
C2_DeletePrunesEveryOccurrence ==
    [][(last'.op = "deleteTask" /\ last'.ok) =>
        LET T == last'.arg
        IN  /\ T \notin TaskIdSet(tasks')
            /\ \A i \in 1 .. Len(tasks') : ~Includes(tasks'[i].depends_on, T)
            /\ \A i \in 1 .. Len(tasks') : \A j \in 1 .. Len(tasks) :
                  tasks[j].id = tasks'[i].id =>
                    tasks'[i].depends_on =
                        SelectSeq(tasks[j].depends_on, LAMBDA x : x # T)]_vars

----------------------------------------------------------------------------
(* Properties of the webhook specification. *)

\* the subscription filter as the data model states it
Subscribed(w, event, projectId) ==
    /\ w.enabled
    /\ event \in w.events
    /\ (w.project_id = Undefined \/ w.project_id = projectId)

\* a step that enters triggerWebhooks with a handler registered
TriggerEntered == last'.op = "triggerWebhooks" /\ handler = "set"

NoRepeats(s) == \A i, j \in 1 .. Len(s) : s[i] = s[j] => i = j

\* every webhook selected by a call is invoked by it once, in order, as long
\* as the call finds a handler registered at each webhook's turn
InvokedAsSelected ==
    /\ \A k \in 1 .. Len(trig.invoked) : Includes(trig.matching, trig.invoked[k])
    /\ NoRepeats(trig.invoked)
    /\ ~trig.noHandler => trig.invoked = SubSeq(trig.matching, 1, trig.next - 1)
    /\ (trig.pc = "done" /\ ~trig.noHandler) => trig.invoked = trig.matching

\* C3: a call of triggerWebhooks(event, data, projectId) selects webhook W for
\* the handler iff W is enabled, subscribes to the event and has no project_id
\* or the project_id of the event; a webhook with a project_id is not
\* selected by a call without projectId.
C3_InvokedIffSubscribed ==
    [][TriggerEntered =>
        \A i \in 1 .. Len(webhooks) :
            Includes(trig'.matching, webhooks[i].id)
                <=> Subscribed(webhooks[i], trig'.event, trig'.projectId)]_vars

\* C4: for a webhook W with events = ['task.created'] and project_id = P1, a
\* 'task.created' call for P1 selects W when W is enabled, a call for another
\* project never does, no call selects W while W is disabled; and the
\* handler is invoked for exactly the selected webhooks.
C4_ProjectScopedWebhook ==
    /\ [][TriggerEntered =>
            \A i \in 1 .. Len(webhooks) :
                LET W == webhooks[i]
                    selected == Includes(trig'.matching, W.id)
                IN  /\ ~W.enabled => ~selected
                    /\ (W.events = {"task.created"} /\ W.project_id # Undefined
                            /\ trig'.event = "task.created") =>
                          /\ (W.enabled /\ trig'.projectId = W.project_id) => selected
                          /\ (trig'.projectId # Undefined
                                /\ trig'.projectId # W.project_id) => ~selected]_vars
    /\ []InvokedAsSelected

\* C4 witness: a finished 'task.created' call for project 1 has invoked the
\* handler for an enabled webhook that has project_id 1.
C4_Witness ==
    /\ last.op = "triggerWebhooks"
    /\ trig.pc = "done" /\ trig.event = "task.created"
    /\ trig.projectId # Undefined
    /\ \E i \in 1 .. Len(webhooks) :
          /\ webhooks[i].events = {"task.created"}
          /\ webhooks[i].project_id = trig.projectId /\ webhooks[i].enabled
          /\ Includes(trig.invoked, webhooks[i].id)

\* C5: within a call the handler is invoked once for each matching webhook,
\* in collection order, also after the handler threw or rejected for an
\* earlier one (for as long as a handler is registered), and the promise
\* of triggerWebhooks never rejects.
C5_FailureDoesNotStopDispatch ==
    /\ ~trig.rejected
    /\ InvokedAsSelected
    /\ NoRepeats(trig.matching)

\* C5 witness: the handler failed for the first webhook and the call went on
\* to invoke it for the second.
C5_Witness ==
    /\ trig.pc = "awaiting"
    /\ trig.failed /\ ~trig.noHandler
    /\ Len(trig.invoked) = 2


----------------------------------------------------------------------------
(* The delete cascades, checked under SpecCascade. *)

HasId(s, id) == \E i \in 1 .. Len(s) : s[i].id = id

\* C6: deleteProject(P) on an existing project removes P, every epic whose
\* project_id is P and every task whose project_id is P; the projects, epics
\* and tasks of other projects stay, unchanged and in order.
C6_DeleteProjectCascades ==
    [][(last'.op = "deleteProject" /\ HasId(projects, last'.arg)) =>
        LET P == last'.arg
        IN  /\ ~HasId(projects', P)
            /\ \A i \in 1 .. Len(epics') : epics'[i].project_id # P
            /\ \A i \in 1 .. Len(tasks') : tasks'[i].project_id # P
            /\ projects' = SelectSeq(projects, LAMBDA x : x.id # P)
            /\ epics' = SelectSeq(epics, LAMBDA e : e.project_id # P)
            /\ tasks' = SelectSeq(tasks, LAMBDA t : t.project_id # P)]_vars

\* deleteProject has just removed a project together with an epic and a task
\* of it, and a project with an epic and a task of its own is left
C6_Witness ==
    /\ last.op = "deleteProject" /\ last.ok
    /\ Len(projects) = 1 /\ Len(epics) = 1 /\ Len(tasks) = 1
    /\ nextId.epic = FirstIds.epic + 2 /\ nextId.task = FirstIds.task + 2
    /\ epics[1].project_id = projects[1].id
    /\ tasks[1].project_id = projects[1].id

\* C7: deleteEpic(E) on an existing epic removes E, sets epic_id to undefined
\* on every task that referenced E, deletes no task, changes no other field of
\* any task, and returns true.
C7_DeleteEpicClearsReferences ==
    [][(last'.op = "deleteEpic" /\ HasId(epics, last'.arg)) =>
        LET E == last'.arg
        IN  /\ last'.ok
            /\ epics' = SelectSeq(epics, LAMBDA e : e.id # E)
            /\ Len(tasks') = Len(tasks)
            /\ \A i \in 1 .. Len(tasks) :
                    tasks'[i] = IF tasks[i].epic_id = E
                                THEN [tasks[i] EXCEPT !.epic_id = Undefined]
                                ELSE tasks[i]]_vars

\* deleteEpic has just cleared the reference of one task and left a task of
\* another epic as it was
C7_Witness ==
    /\ last.op = "deleteEpic" /\ last.ok /\ last.n = 1
    /\ Len(tasks) = 2
    /\ \E i, j \in 1 .. Len(tasks) :
            /\ tasks[i].epic_id = Undefined
            /\ tasks[j].epic_id # Undefined /\ HasId(epics, tasks[j].epic_id)

----------------------------------------------------------------------------
(* The archive sweeps, checked under SpecArchive. *)

\* C8: archiveDoneTasks(P) sets archived = true on exactly the tasks with
\* project_id = P, status done and archived not already true, changes nothing
\* else, and returns the number of tasks it changed.
C8_ArchivesExactlyDoneTasks ==
    [][last'.op = "archiveDoneTasks" =>
        LET P == last'.arg
            Due == {i \in 1 .. Len(tasks) :
                        /\ tasks[i].project_id = P
                        /\ tasks[i].status = "done"
                        /\ tasks[i].archived # "true"}
        IN  /\ Len(tasks') = Len(tasks)
            /\ \A i \in 1 .. Len(tasks) :
                    tasks'[i] = IF i \in Due
                                THEN [tasks[i] EXCEPT !.archived = "true"]
                                ELSE tasks[i]
            /\ last'.n = Cardinality(Due)
            /\ UNCHANGED <<projects, epics, webhooks, deliveries>>]_vars

\* archiveDoneTasks has just archived one task and left alone a done task of
\* the other project
C8_Witness ==
    /\ last.op = "archiveDoneTasks" /\ last.n = 1
    /\ \E i, j \in 1 .. Len(tasks) :
            /\ tasks[i].project_id = last.arg /\ tasks[i].archived = "true"
            /\ tasks[j].project_id # last.arg /\ tasks[j].status = "done"
            /\ tasks[j].archived # "true"

\* C9: archiveDoneTasks is idempotent: in the state a call leaves, a second
\* call with the same project returns 0, changes no task and does not call
\* write().
C9_ArchiveDoneTasksIdempotent ==
    last.op = "archiveDoneTasks" =>
        /\ ArchiveCount(tasks, last.arg) = 0
        /\ ArchivedTasks(tasks, last.arg) = tasks
        /\ ArchiveWrites(tasks, last.arg) = FALSE

\* a first call has archived two tasks and written
C9_Witness ==
    /\ last.op = "archiveDoneTasks" /\ last.n = 2 /\ last.wrote
    /\ \A i \in 1 .. Len(tasks) : tasks[i].archived = "true"

\* C10: archiveEmptyEpics(P) removes exactly the epics of P for which no task
\* has epic_id equal to the epic's id and archived other than true (epics that
\* never had a task included), keeps every other epic, and returns the number
\* of epics it removed.
C10_DeletesExactlyEmptyEpics ==
    [][last'.op = "archiveEmptyEpics" =>
        LET P == last'.arg
            Empty(e) == /\ e.project_id = P
                        /\ ~\E i \in 1 .. Len(tasks) :
                                /\ tasks[i].epic_id = e.id
                                /\ tasks[i].archived # "true"
        IN  /\ epics' = SelectSeq(epics, LAMBDA e : ~Empty(e))
            /\ last'.n = Len(epics) - Len(epics')]_vars

\* archiveEmptyEpics has just removed an epic whose only task is archived and
\* kept an epic of the same project that has an active task
C10_Witness ==
    /\ last.op = "archiveEmptyEpics" /\ last.n = 1
    /\ Len(epics) = 1 /\ epics[1].project_id = last.arg
    /\ \E i, j \in 1 .. Len(tasks) :
            /\ tasks[i].archived = "true"
            /\ tasks[i].epic_id # Undefined /\ ~HasId(epics, tasks[i].epic_id)
            /\ tasks[j].epic_id = epics[1].id /\ tasks[j].archived # "true"

\* C11: cleanupProject(P, archiveTasks, archiveEpics) runs the task sweep only
\* when archiveTasks is true and the epic sweep only when archiveEpics is
\* true; a sweep whose flag is false changes nothing and counts 0; the
\* returned archivedTasks and deletedEpics are the counts of the sweeps that
\* ran (the epic sweep sees the tasks as the task sweep left them).
C11_CleanupRunsFlaggedSweeps ==
    [][last'.op = "cleanupProject" =>
        LET P == last'.arg
            archiveTasks == last'.flags[1]
            archiveEpics == last'.flags[2]
        IN  /\ archiveTasks =>
                    /\ tasks' = ArchivedTasks(tasks, P)
                    /\ last'.n = ArchiveCount(tasks, P)
            /\ ~archiveTasks => tasks' = tasks /\ last'.n = 0
            /\ archiveEpics =>
                    /\ epics' = EpicsAfterSweep(epics, tasks', P)
                    /\ last'.n2 = Len(EpicIdsToDelete(epics, tasks', P))
            /\ ~archiveEpics => epics' = epics /\ last'.n2 = 0]_vars

\* cleanupProject has just run the task sweep alone: it archived a task and
\* left in place an epic of the project that the epic sweep would delete
C11_Witness ==
    /\ last.op = "cleanupProject" /\ last.flags = <<TRUE, FALSE>>
    /\ last.n = 1 /\ last.n2 = 0
    /\ \E i \in 1 .. Len(epics) :
            epics[i].project_id = last.arg /\ ~HasActiveTasks(tasks, epics[i].id)

----------------------------------------------------------------------------
(* The file lock, checked under SpecLock and SpecLockFair. *)

InBody == {p \in Procs : procs[p].pc = "body"}

\* C12: at most one process at a time executes inside withFileLock, and a
\* process runs the body only while the lock file it created itself exists.
C12_LockIsExclusive ==
    /\ Cardinality(InBody) <= 1
    /\ \A p \in InBody : lockFile = p

\* one process runs the body while the other has been waiting for the lock
C12_Witness ==
    \E p, q \in Procs :
        /\ procs[p].pc = "body" /\ lockFile = p
        /\ procs[q].pc = "asleep" /\ procs[q].waited >= SleepMs

\* C13: whenever the body returns or throws, the lock file has been removed
\* before control returns to the caller.
C13_LockReleasedOnExit ==
    [][\A p \in Procs :
        (procs[p].pc = "body" /\ procs'[p].pc = "outside") =>
            lockFile' = NoFile]_vars

\* C14: every withFileLock call terminates: a waiting process acquires the
\* lock or throws the timeout error, which it throws only once more than
\* LockTimeout ms have elapsed while the lock file exists; the body runs only
\* with the lock.
C14_LockWaitIsBounded ==
    /\ [][\A p \in Procs :
            (procs[p].pc = "open" /\ procs'[p].out = "timeout") =>
                procs[p].waited > LockTimeout /\ lockFile # NoFile]_vars
    /\ [](\A p \in Procs : procs[p].pc = "body" => lockFile = p)
    /\ \A p \in Procs :
            (procs[p].pc \in {"open", "asleep"})
                ~> (procs[p].pc \in {"body", "outside"})
    /\ \A p \in Procs :
            (procs[p].pc = "body") ~> (procs[p].pc \in {"outside", "crashed"})

\* a process has given up on the stale lock of a holder that crashed
C14_Witness ==
    \E p, q \in Procs :
        /\ procs[p].pc = "outside" /\ procs[p].out = "timeout"
        /\ procs[q].pc = "crashed" /\ lockFile = q

----------------------------------------------------------------------------
(* The Firestore adapter, checked under SpecFirestore. *)

\* C15: after flushFirestoreWrites resolves, every write() issued before the
\* flush was called has completed its batch commit.
C15_FlushAwaitsEveryWrite ==
    flush.pc = "resolved" =>
        \A k \in 1 .. flush.issued : writes[k].state = "committed"

\* C16: after store mutations followed by a flush, a fresh adapter's readAsync
\* yields the collections of the in-memory store: created and updated
\* entities with their current values (a cleared epic_id included), deleted
\* entities absent.  (Stated for a read after every write has committed.)
C16_HydrateEqualsStore ==
    (hydrated.flushed /\ hydrated.issued = Len(writes)) =>
        /\ hydrated.tasks = Range(tasks)
        /\ hydrated.epics = Range(epics)

\* C17: a batch commit that fails reaches the caller of the mutator that
\* issued the write as a thrown error.
C17_WriteFailureReachesCaller ==
    \A k \in 1 .. Len(writes) : writes[k].state = "failed" => writes[k].threw

----------------------------------------------------------------------------
(* Delivery records, checked under SpecDeliveries. *)

DeliveryById(s, id) == CHOOSE d \in Range(s) : d.id = id

\* C18: every WebhookDelivery is created with status pending and attempts 0,
\* and once its status is success or failed it never changes again.
C18_DeliveryStatusIsFinal ==
    [][/\ \A d \in Range(deliveries') :
            ~HasId(deliveries, d.id) => d.status = "pending" /\ d.attempts = 0
       /\ \A d \in Range(deliveries) :
            (d.status # "pending" /\ HasId(deliveries', d.id)) =>
                DeliveryById(deliveries', d.id).status = d.status]_vars

\* C19 as stated: an existing delivery record is removed from the store only
\* by cleanupOldDeliveries; deleteWebhook removes none.
C19_OnlyCleanupRemoves ==
    [][(\E d \in Range(deliveries) : ~HasId(deliveries', d.id)) =>
            last'.op = "cleanupOldDeliveries"]_vars

\* C19, amended: a delivery record is removed only by cleanupOldDeliveries or
\* by deleteWebhook of the webhook it belongs to; every other record stays as
\* it is under deleteWebhook.
C19_OnlyCleanupOrOwnWebhookRemoves ==
    [][/\ \A d \in Range(deliveries) :
            ~HasId(deliveries', d.id) =>
                \/ last'.op = "cleanupOldDeliveries"
                \/ last'.op = "deleteWebhook" /\ last'.arg = d.webhook_id
       /\ last'.op = "deleteWebhook" =>
            \A d \in Range(deliveries) :
                d.webhook_id # last'.arg => d \in Range(deliveries')]_vars

\* deleteWebhook has just removed a delivery record of its webhook and kept
\* the record of another webhook
C19_Witness ==
    /\ last.op = "deleteWebhook" /\ last.ok /\ last.n = 1
    /\ Len(deliveries) = 1 /\ deliveries[1].webhook_id # last.arg

\* C20: cleanupOldDeliveries(maxAge) removes exactly the deliveries created
\* before now - maxAge (one created at that instant is kept), returns their
\* number, and does not write when it removes none.
C20_CleanupRemovesOlderThanCutoff ==
    [][last'.op = "cleanupOldDeliveries" =>
        LET cutoff == now - last'.arg
        IN  /\ deliveries' = SelectSeq(deliveries, LAMBDA d : ~(d.created_at < cutoff))
            /\ last'.n = Len(deliveries) - Len(deliveries')
            /\ last'.n = 0 => ~last'.wrote]_vars

\* C21: getWebhookDeliveries(webhookId, limit) returns only deliveries of
\* webhookId (all when it is omitted), ordered by created_at descending, at
\* most limit of them (default 50) and the most recent ones; the stored
\* collection is neither reordered nor modified.
C21_DeliveriesMostRecentFirst ==
    [][last'.op = "getWebhookDeliveries" =>
        LET out == last'.out
            Asked == {d \in Range(deliveries) :
                        last'.arg = Undefined \/ d.webhook_id = last'.arg}
        IN  /\ Range(out) \subseteq Asked
            /\ Cardinality(Range(out)) = Len(out)
            /\ \A i, j \in 1 .. Len(out) :
                    i < j => out[i].created_at >= out[j].created_at
            /\ Len(out) = IF Cardinality(Asked) < last'.n
                          THEN Cardinality(Asked) ELSE last'.n
            /\ \A d \in Asked \ Range(out) :
                    \A r \in Range(out) : r.created_at >= d.created_at
            /\ deliveries' = deliveries]_vars

\* a query with limit 1 has returned the newer of two deliveries of its
\* webhook, which is stored behind an older one of another webhook
C21_Witness ==
    /\ last.op = "getWebhookDeliveries" /\ last.arg # Undefined /\ last.n = 1
    /\ Len(last.out) = 1 /\ Len(deliveries) = 3
    /\ deliveries[1].webhook_id # last.arg
    /\ deliveries[2].webhook_id = last.arg
    /\ last.out[1] = deliveries[3]
    /\ deliveries[3].created_at > deliveries[2].created_at

ToolOps == {"update_task", "move_task_status"}

\* C22: the tools update_task and move_task_status answer a request for
\* status 'in_progress' on a task in 'planning' with an error and leave the
\* task unchanged; so no step through these tools takes a task from
\* 'planning' directly to 'in_progress'.
C22_ToolsRefusePlanningToInProgress ==
    [][last'.op \in ToolOps =>
        LET args == last'.req[1]
            index == FindIndexById(tasks, args.task_id)
        IN  /\ (/\ Has(args, "status") /\ args.status = "in_progress"
                /\ index # 0 /\ tasks[index].status = "planning")
                    => ~last'.ok /\ tasks' = tasks
            /\ Len(tasks') = Len(tasks)
            /\ \A i \in 1 .. Len(tasks) :
                    tasks[i].status = "planning"
                        => tasks'[i].status # "in_progress"]_vars

\* update_task has just refused to start a task that is in planning, and
\* another task has gone the allowed way to in_progress
C22_Witness ==
    /\ last.op = "update_task" /\ ~last.ok
    /\ Has(last.req[1], "status") /\ last.req[1].status = "in_progress"
    /\ \E i, j \in 1 .. Len(tasks) :
            /\ tasks[i].id = last.arg /\ tasks[i].status = "planning"
            /\ tasks[j].status = "in_progress"

\* C23: PATCH /tasks/:id never moves a task from 'planning' directly to
\* 'in_progress': such a request is rejected and the stored task keeps
\* status 'planning'.
C23_PatchRefusesPlanningToInProgress ==
    [][last'.op = "PATCH /tasks/:id" =>
        /\ Len(tasks') = Len(tasks)
        /\ \A i \in 1 .. Len(tasks) :
                tasks[i].status = "planning"
                    => tasks'[i].status # "in_progress"]_vars

\* the collection an update or delete operation searches for its id (a step
\* that leaves the clock alone is a step of the operation last names)
CollectionOf ==
    [updateProject |-> projects, deleteProject |-> projects,
     updateEpic |-> epics, deleteEpic |-> epics,
     updateTask |-> tasks, deleteTask |-> tasks,
     updateWebhook |-> webhooks, deleteWebhook |-> webhooks,
     updateWebhookDelivery |-> deliveries,
     updateProduct |-> products, deleteProduct |-> products,
     hardDeleteProduct |-> products,
     updateCustomer |-> customers, deleteCustomer |-> customers,
     hardDeleteCustomer |-> customers]

\* C26: a core update or delete operation called with an id that matches no
\* entity returns undefined or false, leaves every collection unchanged and
\* does not call write().
C26_UnknownIdChangesNothing ==
    [][(/\ last'.op \in DOMAIN CollectionOf /\ now' = now
        /\ FindIndexById(CollectionOf[last'.op], last'.arg) = 0)
        => /\ ~last'.ok /\ ~last'.wrote
           /\ UNCHANGED <<projects, epics, tasks, webhooks, deliveries,
                          products, customers, quotes>>]_vars

\* hardDeleteProduct has just missed its id in a catalog that holds another
\* product, next to a task
C26_Witness ==
    /\ last.op = "hardDeleteProduct" /\ ~last.ok /\ ~last.wrote
    /\ Len(products) = 1 /\ products[1].id # last.arg
    /\ Len(tasks) = 1

\* what deleteProduct / deleteCustomer leave of the collection es of an
\* existing entity id: the entity in its place, found by id, inactive, its
\* other fields but updatedAt as before, and absent from the active list
SoftDeleteKeeps(es, after, id) ==
    LET index == FindIndexById(es, id)
    IN  /\ Len(after) = Len(es)
        /\ FindIndexById(after, id) = index
        /\ after[index].isActive = FALSE
        /\ after[index] = [es[index] EXCEPT !.isActive = FALSE,
                                            !.updatedAt = after[index].updatedAt]
        /\ \A j \in 1 .. Len(after) : j # index => after[j] = es[j]
        /\ ~ \E j \in 1 .. Len(ListByActive(after, TRUE)) :
                ListByActive(after, TRUE)[j].id = id

\* C28: deleteProduct(id) and deleteCustomer(id) on an existing entity keep
\* it in its collection, with isActive = false and every field other than
\* isActive and updatedAt unchanged, and out of the list of active entities;
\* only hardDeleteProduct / hardDeleteCustomer remove an entity.
C28_SoftDeleteKeepsEntity ==
    [][now' = now =>
        /\ (last'.op = "deleteProduct" /\ FindIndexById(products, last'.arg) # 0)
                => SoftDeleteKeeps(products, products', last'.arg)
        /\ (last'.op = "deleteCustomer" /\ FindIndexById(customers, last'.arg) # 0)
                => SoftDeleteKeeps(customers, customers', last'.arg)
        /\ Len(products') < Len(products) => last'.op = "hardDeleteProduct"
        /\ Len(customers') < Len(customers) => last'.op = "hardDeleteCustomer"]_vars

\* deleteProduct has just deactivated a product created at an earlier instant
C28_Witness ==
    /\ last.op = "deleteProduct" /\ last.ok
    /\ \E i \in 1 .. Len(products) :
            /\ products[i].id = last.arg /\ ~products[i].isActive
            /\ products[i].updatedAt > products[i].createdAt

\* the entity a successful PATCH with a status has changed, as it was
\* before, and the events of the handler
StatusPatched ==
    [op \in {"PATCH /tasks/:id", "PATCH /quotes/:id", "PATCH /quotes/:id/status"} |->
        IF op = "PATCH /tasks/:id" THEN tasks ELSE quotes]
UpdatedEvent ==
    [op \in DOMAIN StatusPatched |->
        IF op = "PATCH /tasks/:id" THEN "task.updated" ELSE "quote.updated"]
StatusChangedEvent ==
    [op \in DOMAIN StatusPatched |->
        IF op = "PATCH /tasks/:id" THEN "task.status_changed"
        ELSE "quote.status_changed"]
EventsOf(l) == {l.log[i] : i \in 2 .. Len(l.log)}

Stored == <<projects, epics, tasks, webhooks, deliveries, products, customers, quotes>>

\* C25: a REST mutation handler triggers its webhook events only after the
\* store mutator has returned successfully, the change applied and write()
\* called; a request rejected by validation, or whose mutator reports an
\* unknown id, triggers no event.
C25_EventsOnlyAfterSuccessfulWrite ==
    [][/\ \A i \in 1 .. Len(last'.log) :
            last'.log[i] # "write"
                => /\ i > 1 /\ last'.log[1] = "write"
                   /\ last'.ok /\ last'.wrote
       /\ last'.n \in {BadRequest, NotFound}
            => last'.log = <<>> /\ Stored' = Stored]_vars

\* POST /products has just refused a SKU that differs from a stored one in
\* case only, and DELETE /products/:id an unknown id, without an event
C25_Witness ==
    \/ /\ last.op = "POST /products" /\ last.n = BadRequest /\ last.log = <<>>
       /\ Has(last.req[1], "sku") /\ Len(products) = 1
    \/ /\ last.op = "DELETE /products/:id" /\ last.n = NotFound /\ last.log = <<>>
       /\ Len(products) = 1

\* the collection a PATCH or DELETE on /x/:id looks its id up in
Addressed ==
    [op \in {"PATCH /projects/:id", "DELETE /projects/:id", "PATCH /epics/:id",
             "DELETE /epics/:id", "PATCH /tasks/:id", "DELETE /tasks/:id",
             "PATCH /webhooks/:id", "DELETE /webhooks/:id", "PATCH /products/:id",
             "DELETE /products/:id", "PATCH /customers/:id", "DELETE /customers/:id",
             "PATCH /quotes/:id", "DELETE /quotes/:id"} |->
        CASE op \in {"PATCH /projects/:id", "DELETE /projects/:id"} -> projects
          [] op \in {"PATCH /epics/:id", "DELETE /epics/:id"} -> epics
          [] op \in {"PATCH /tasks/:id", "DELETE /tasks/:id"} -> tasks
          [] op \in {"PATCH /webhooks/:id", "DELETE /webhooks/:id"} -> webhooks
          [] op \in {"PATCH /products/:id", "DELETE /products/:id"} -> products
          [] op \in {"PATCH /customers/:id", "DELETE /customers/:id"} -> customers
          [] OTHER -> quotes]

\* C27: a REST PATCH or DELETE on /projects/:id, /epics/:id, /tasks/:id,
\* /webhooks/:id, /products/:id, /customers/:id or /quotes/:id whose id
\* matches no entity is answered with 404, never with a success.
C27_UnknownIdAnswered404 ==
    [][(/\ last'.op \in DOMAIN Addressed
        /\ FindIndexById(Addressed[last'.op], last'.arg) = 0)
        => last'.n = NotFound /\ ~last'.ok]_vars

\* C30: after any sequence of product create and update requests through
\* the REST handler or the MCP tools of one process, no two products of the
\* catalog have SKUs that are equal ignoring case.
C30_SkusUniqueIgnoringCase ==
    \A i, j \in 1 .. Len(products) :
        i # j => ToLowerCase(products[i].sku) # ToLowerCase(products[j].sku)

\* the collection a PATCH of a task, a product or a customer updates
Patched ==
    [op \in {"PATCH /tasks/:id", "PATCH /products/:id", "PATCH /customers/:id"} |->
        CASE op = "PATCH /tasks/:id" -> <<tasks, tasks'>>
          [] op = "PATCH /products/:id" -> <<products, products'>>
          [] OTHER -> <<customers, customers'>>]

\* C29: an update, also when the REST PATCH handler passes it an arbitrary
\* request body, changes only the fields supplied: every other field keeps
\* its value, id and createdAt never change, and updatedAt is refreshed
\* (products and customers).
C29_UpdateChangesOnlySuppliedFields ==
    [][(last'.op \in DOMAIN Patched /\ last'.ok /\ now' = now) =>
        LET es == Patched[last'.op][1]
            after == Patched[last'.op][2]
            index == FindIndexById(es, last'.arg)
            body == last'.req[1]
            Fixed == {"id", "createdAt"} \cap DOMAIN es[index]
        IN  /\ Len(after) = Len(es)
            /\ \A j \in 1 .. Len(es) : j # index => after[j] = es[j]
            /\ \A f \in Fixed : after[index][f] = es[index][f]
            /\ \A f \in DOMAIN es[index] \ (DOMAIN body \cup {"updatedAt"}) :
                    after[index][f] = es[index][f]
            /\ \A f \in (DOMAIN body \cap DOMAIN es[index]) \ (Fixed \cup {"updatedAt"}) :
                    after[index][f] = body[f]
            /\ "updatedAt" \in DOMAIN es[index] => after[index].updatedAt = now]_vars


\* C38: after deleteWebhook(id) has returned true the webhook is absent, no
\* delivery record of it remains, and the delivery records of every other
\* webhook are the ones there were, in their order.
C38_DeleteWebhookRemovesItsDeliveries ==
    [][(last'.op = "deleteWebhook" /\ last'.ok /\ webhooks' # webhooks) =>
        /\ FindIndexById(webhooks', last'.arg) = 0
        /\ \A d \in Range(deliveries') : d.webhook_id # last'.arg
        /\ deliveries' =
            SelectSeq(deliveries, LAMBDA d : d.webhook_id # last'.arg)]_vars

\* deleteWebhook has removed the delivery record of its webhook; the other
\* webhook and its delivery record are in the store
C38_Witness ==
    /\ last.op = "deleteWebhook" /\ last.ok /\ last.n = 1
    /\ FindIndexById(webhooks, last.arg) = 0
    /\ Len(webhooks) = 1 /\ Len(deliveries) = 1
    /\ deliveries[1].webhook_id = webhooks[1].id

\* no depends_on list holds the same id twice
NoDuplicateDeps ==
    \A i \in 1 .. Len(tasks) :
        \A j, k \in 1 .. Len(tasks[i].depends_on) :
            tasks[i].depends_on[j] = tasks[i].depends_on[k] => j = k

\* C39: addDependency(t, d) on an existing task t returns true; when d is in
\* t.depends_on it changes nothing and does not write, otherwise it appends d
\* at the end of t.depends_on and changes nothing else.  A depends_on list
\* that changes through addDependency and removeDependency only never holds
\* the same id twice.
C39_AddDependencyIdempotent ==
    /\ []NoDuplicateDeps
    /\ [][(last'.op = "addDependency" /\ FindIndexById(tasks, last'.arg) # 0) =>
            LET index == FindIndexById(tasks, last'.arg)
                d == last'.req[1]
            IN  /\ last'.ok
                /\ IF Includes(tasks[index].depends_on, d)
                   THEN tasks' = tasks /\ ~last'.wrote
                   ELSE /\ last'.wrote
                        /\ tasks' = [tasks EXCEPT ![index].depends_on =
                                        Append(@, d)]]_vars

\* addDependency has been given the id that the list of its task already holds
C39_Witness ==
    /\ last.op = "addDependency" /\ last.ok /\ ~last.wrote
    /\ \E i \in 1 .. Len(tasks) :
            /\ tasks[i].id = last.arg
            /\ Len(tasks[i].depends_on) = 1
            /\ tasks[i].depends_on[1] = last.req[1]

\* C34: when no handler is registered, triggerWebhooks returns at once: it
\* looks at no webhook, invokes nothing, fails nowhere, and leaves the
\* collections of the store, the delivery records among them, as they are.
C34_NoHandlerNoEffect ==
    [][(last'.op = "triggerWebhooks" /\ handler = "null" /\ trig.pc # "awaiting") =>
        /\ trig'.pc = "done" /\ trig'.noHandler
        /\ trig'.matching = <<>> /\ trig'.invoked = <<>>
        /\ ~trig'.failed /\ ~trig'.rejected
        /\ <<projects, epics, tasks, webhooks, deliveries>>' =
                <<projects, epics, tasks, webhooks, deliveries>>]_vars

\* triggerWebhooks has returned for want of a handler while an enabled
\* webhook subscribes to the event
C34_Witness ==
    /\ last.op = "triggerWebhooks" /\ handler = "null"
    /\ trig.pc = "done" /\ trig.noHandler /\ trig.invoked = <<>>
    /\ Len(MatchingWebhooks(webhooks, trig.event, trig.projectId)) > 0

\* the positions of the tasks of epic epicId that are not archived
ActiveTasksOf(ts, epicId) ==
    {k \in 1 .. Len(ts) : ts[k].epic_id = epicId /\ NotArchived(ts[k])}

\* C36: cleanupProject(P, true, true) deletes every epic of P whose
\* non-archived tasks are all done when the call starts, and keeps every epic
\* of P that has a non-archived task that is not done.
C36_CleanupDeletesEpicsOfDoneTasks ==
    [][(last'.op = "cleanupProject" /\ last'.flags = <<TRUE, TRUE>>) =>
        \A i \in 1 .. Len(epics) :
            epics[i].project_id = last'.arg =>
                LET active == ActiveTasksOf(tasks, epics[i].id)
                IN  /\ (\A k \in active : tasks[k].status = "done") =>
                            FindIndexById(epics', epics[i].id) = 0
                    /\ (\E k \in active : tasks[k].status # "done") =>
                            FindIndexById(epics', epics[i].id) # 0]_vars

\* C37: archiveEmptyEpics changes no task: the task collection after the call
\* is the one before it, so an archived task of an epic the sweep deleted
\* still holds that epic's id in epic_id.
C37_EpicSweepChangesNoTask ==
    [][last'.op = "archiveEmptyEpics" =>
        /\ tasks' = tasks
        /\ \A k \in 1 .. Len(tasks) :
                (FindIndexById(epics, tasks[k].epic_id) # 0
                    /\ FindIndexById(epics', tasks[k].epic_id) = 0) =>
                        tasks'[k].epic_id = tasks[k].epic_id]_vars

\* archiveEmptyEpics has deleted an epic, and an archived task holds the id
\* of an epic that is no longer in the store
C37_Witness ==
    /\ last.op = "archiveEmptyEpics" /\ last.n > 0
    /\ \E k \in 1 .. Len(tasks) :
            /\ tasks[k].archived = "true"
            /\ tasks[k].epic_id # Undefined
            /\ FindIndexById(epics, tasks[k].epic_id) = 0

\* no two entities of a collection have the same id
UniqueIds(es) == \A i, j \in 1 .. Len(es) : es[i].id = es[j].id => i = j

\* C31: a create operation assigns an id that no entity of the collection has
\* and none ever had, the deleted ones included; so the ids of each
\* collection are unique in every reachable state.
C31_CreatedIdsAreNew ==
    /\ [](UniqueIds(projects) /\ UniqueIds(tasks))
    /\ [][/\ Len(projects') > Len(projects) => last'.arg \notin issued.project
          /\ Len(tasks') > Len(tasks) => last'.arg \notin issued.task]_vars

\* the whole cents nearest to the amount x (halves upwards), taken exactly
CentsOf(x) == MathRound([m |-> BigMulSmall(x.m, 100), e |-> x.e])

\* n / 100 rounded to a whole number, halves upwards
HalfUp(n) == (n + 50) \div 100

\* quantity * unitPrice * (1 - discount / 100) in cents, rounded half-up
LineCents(item) == HalfUp(item.quantity * item.unitPrice * (100 - item.discount))

RECURSIVE SumCents(_)
SumCents(items) ==
    IF items = <<>> THEN 0 ELSE LineCents(items[1]) + SumCents(Tail(items))

\* C33: in whole cents, each line total shown is quantity * unitPrice *
\* (1 - discount/100) rounded half-up, the subtotal is the sum of the line
\* totals, the tax is subtotal * taxRate / 100 rounded half-up, and the total
\* is their sum; so the items (2, 100.00, 10) and (1, 50.00, 0) at rate 10
\* give 180.00, 50.00, 230.00, 23.00 and 253.00.
C33_TotalsRoundHalfUp ==
    form.shown # <<>> =>
        LET items == form.lineItems
            subtotal == SumCents(items)
            tax == HalfUp(subtotal * form.taxRate)
        IN  /\ \A i \in 1 .. Len(items) :
                    CentsOf(form.shown.lineTotals[i]) = LineCents(items[i])
            /\ CentsOf(form.shown.subtotal) = subtotal
            /\ CentsOf(form.shown.taxAmount) = tax
            /\ CentsOf(form.shown.total) = subtotal + tax

\* C32: the REST process calls setStorageAdapter once, and a request is
\* handled only from an adapter, the one that is the storage adapter at that
\* moment, whose readAsync has completed.
C32_OneAdapterReadBeforeUse ==
    /\ api.sets <= 1
    /\ \A r \in Requests :
            (api.reqs[r].pc = "done" /\ api.reqs[r].served.adapter # NoAdapter) =>
                api.reqs[r].served.read = "done"

\* C35: the lock is held for read() and for write() apiece: a process between
\* the two is outside withFileLock, and its write() puts the document of its
\* own memory in place of the data file, whatever another process wrote there
\* after this one read.
C35_WriteReplacesWithOwnRead ==
    /\ [](\A p \in Procs : disk.call[p] = "tool" => procs[p].pc = "outside")
    /\ [][disk'.data # disk.data =>
            \E p \in Procs :
                /\ disk.call[p] = "written" /\ disk'.call[p] = "renamed"
                /\ disk'.data = Document(disk.mem[p])]_vars

\* a mutation one process had written to the data file is gone from it: the
\* other process wrote, after it, the document it had read before
C35_Witness ==
    \E p, q \in Procs :
        /\ p # q
        /\ p \in disk.written /\ p \notin disk.data.doc
        /\ q \in disk.data.doc
        /\ disk.call[q] = "renamed"

\* C40: the data file always holds a whole document: write() changes it only
\* by renaming over it the temporary file that holds the whole new document,
\* and a process can crash anywhere in write().
C40_DataFileNeverPartial ==
    /\ [](disk.data.state = "complete")
    /\ [][disk'.data # disk.data =>
            /\ disk.tmp.state = "complete"
            /\ disk'.data = disk.tmp
            /\ \E p \in Procs : procs[p].pc = "body" /\ lockFile = p]_vars

\* a process has crashed in write() with the temporary file half written
C40_Witness ==
    \E p \in Procs :
        /\ procs[p].pc = "crashed" /\ disk.call[p] = "partial"
        /\ disk.tmp.state = "partial"
        /\ disk.data.state = "complete" /\ disk.data.doc # {}
====
